---- MODULE Spec2Model ----
(***************************************************************************)
(* Model of the scoped file explorer of PyWebDownloadManager               *)
(* (src/services/files_service.py): the path guard, browse, get_preview,   *)
(* build_zip and get_file_meta, over a small filesystem.                   *)
(*                                                                         *)
(* Text is modelled as sequences of character codes (ASCII / Latin-1), a   *)
(* path as the sequence of its segments.  The filesystem holds no symbolic *)
(* links, so Path.resolve() is the lexical folding of ".." segments.       *)
(***************************************************************************)
EXTENDS Integers, Sequences, FiniteSets, TLC

VARIABLES
    fs,       \* the filesystem: absolute path -> node
    pc,       \* "idle" (no call in progress) or "done" (a call has returned)
    op,       \* the entry point of the last call
    arg,      \* its relative_path argument, as a sequence of segments
    result,   \* what it returned or raised
    env,      \* what the environment answered during the call
    resolved, \* the target the call's path guard let through, None when it
              \* refused the path as a traversal
    child,    \* the ffprobe child process of the call to _parse_video
    calls,    \* concurrent callers: caller -> the call it has in progress
    bufs,     \* the io.BytesIO buffers of the archives being built
    sched,    \* _shutdown_scheduled, _shutdown_time and _shutdown_thread
    lock,     \* the holder of _shutdown_lock, None when it is free
    workers,  \* the _shutdown_worker threads started so far
    now,      \* time.time(), in seconds
    fired     \* the runs of the shutdown command so far

vars ==
    <<fs, pc, op, arg, result, env, resolved, child, calls, bufs,
      sched, lock, workers, now, fired>>

\* the variables of the shutdown scheduler
shut == <<sched, lock, workers, now, fired>>

\* the variables that belong to the ffprobe child, to concurrent callers and
\* to the shutdown scheduler: a single call through the service leaves them
\* alone
aux == <<child, calls, bufs, shut>>

(***************************************************************************)
(* Bounds                                                                  *)
(***************************************************************************)
\* longest caller-supplied relative path, in segments
MaxSegs == 3

(***************************************************************************)
(* Text                                                                    *)
(***************************************************************************)
\* character codes used by the code's string tests
Ch == [dot |-> 46, slash |-> 47, backslash |-> 92, nul |-> 0]

\* segment names of the model's filesystem and of the callers' paths
DotDot == <<46, 46>>                    \* ".."
NameR == <<114>>                        \* "r"
NameRx == <<114, 120>>                  \* "rx"
NameSub == <<115, 117, 98>>             \* "sub"
NameDotH == <<46, 104>>                 \* ".h"
NameAPng == <<97, 46, 112, 110, 103>>   \* "a.png"
NameVMp4 == <<118, 46, 109, 112, 52>>   \* "v.mp4"

\* Optional values: None is the empty tuple, Some(v) the one-element tuple
None == <<>>
Some(v) == <<v>>

\* str.startswith
StartsWith(s, p) == Len(p) <= Len(s) /\ SubSeq(s, 1, Len(p)) = p

\* the order of Python's str comparison: lexicographic by code point
RECURSIVE StrLess(_, _)
StrLess(a, b) ==
    IF a = <<>> THEN b # <<>>
    ELSE IF b = <<>> THEN FALSE
    ELSE IF a[1] # b[1] THEN a[1] < b[1]
    ELSE StrLess(Tail(a), Tail(b))

\* sorted(...) of a collection of distinct strings
RECURSIVE Sorted(_)
Sorted(S) ==
    IF S = {} THEN <<>>
    ELSE LET m == CHOOSE x \in S : \A y \in S : x = y \/ StrLess(x, y)
         IN  <<m>> \o Sorted(S \ {m})

\* "/".join(parts)
RECURSIVE JoinSlash(_)
JoinSlash(parts) ==
    IF parts = <<>> THEN <<>>
    ELSE IF Len(parts) = 1 THEN parts[1]
    ELSE parts[1] \o <<Ch.slash>> \o JoinSlash(Tail(parts))

\* s.replace("\\", "/")
ReplaceBackslash(s) == [i \in 1..Len(s) |-> IF s[i] = Ch.backslash THEN Ch.slash ELSE s[i]]

(***************************************************************************)
(* Paths                                                                   *)
(***************************************************************************)
\* str(path) of an absolute path
RECURSIVE PathStr(_)
PathStr(p) ==
    IF p = <<>> THEN <<Ch.slash>>
    ELSE IF Len(p) = 1 THEN <<Ch.slash>> \o p[1]
    ELSE PathStr(SubSeq(p, 1, Len(p) - 1)) \o <<Ch.slash>> \o p[Len(p)]

\* Path.resolve() of an absolute path: ".." drops the last segment, and the
\* parent of "/" is "/"
RECURSIVE Resolve(_)
Resolve(p) ==
    IF p = <<>> THEN <<>>
    ELSE LET front == Resolve(SubSeq(p, 1, Len(p) - 1))
             last == p[Len(p)]
         IN  IF last = DotDot
             THEN (IF front = <<>> THEN <<>> ELSE SubSeq(front, 1, Len(front) - 1))
             ELSE Append(front, last)

\* settings.output_path, resolved: the sandbox root "/r"
Workdir == <<NameR>>

(***************************************************************************)
(* JSON values, and json.loads on the texts the model uses                 *)
(***************************************************************************)
\* a JSON value is a record of one field, named after its type
JDict(f) == [dict |-> f]
JList(s) == [list |-> s]
JStr(s) == [str |-> s]
JInt(n) == [int |-> n]
JNull == [null |-> TRUE]

TypeOf(j) == CHOOSE k \in DOMAIN j : TRUE
Val(j) == j[TypeOf(j)]

TxtNodes == <<123, 34, 110, 111, 100, 101, 115, 34, 58, 91, 93, 125>>  \* {"nodes":[]}
TxtX1 == <<123, 34, 120, 34, 58, 49, 125>>                             \* {"x":1}
TxtBad == <<123, 98, 97, 100>>                                         \* {bad

\* {"prompt":{"x":1},"workflow":{"nodes":[]}}
TxtPW ==
    <<123, 34, 112, 114, 111, 109, 112, 116, 34, 58, 123, 34, 120, 34, 58, 49, 125, 44,
      34, 119, 111, 114, 107, 102, 108, 111, 119, 34, 58, 123, 34, 110, 111, 100, 101,
      115, 34, 58, 91, 93, 125, 125>>
\* {"nodes":[],"prompt":{"x":1}}
TxtNodesP ==
    <<123, 34, 110, 111, 100, 101, 115, 34, 58, 91, 93, 44, 34, 112, 114, 111, 109, 112,
      116, 34, 58, 123, 34, 120, 34, 58, 49, 125, 125>>
\* {"nodes":[],"prompt":"p"}
TxtNodesPStr ==
    <<123, 34, 110, 111, 100, 101, 115, 34, 58, 91, 93, 44, 34, 112, 114, 111, 109, 112,
      116, 34, 58, 34, 112, 34, 125>>
\* {"prompt":{"x":1},"workflow":"w"}
TxtPWStr ==
    <<123, 34, 112, 114, 111, 109, 112, 116, 34, 58, 123, 34, 120, 34, 58, 49, 125, 44,
      34, 119, 111, 114, 107, 102, 108, 111, 119, 34, 58, 34, 119, 34, 125>>
\* {"prompt":"p"}
TxtPStr == <<123, 34, 112, 114, 111, 109, 112, 116, 34, 58, 34, 112, 34, 125>>
\* [1]
TxtList == <<91, 49, 93>>

\* {"x":1} as json.dump(..., indent=2) lays it out: three lines
TxtX1Pretty == <<123, 10, 32, 32, 34, 120, 34, 58, 32, 49, 10, 125>>

ValNodes == JDict([nodes |-> JList(<<>>)])
ValX1 == JDict([x |-> JInt(1)])
ValPW == JDict([prompt |-> ValX1, workflow |-> ValNodes])
ValNodesP == JDict([nodes |-> JList(<<>>), prompt |-> ValX1])
ValNodesPStr == JDict([nodes |-> JList(<<>>), prompt |-> JStr(<<112>>)])
ValPWStr == JDict([prompt |-> ValX1, workflow |-> JStr(<<119>>)])
ValPStr == JDict([prompt |-> JStr(<<112>>)])
ValList == JList(<<JInt(1)>>)

\* the texts json.loads accepts, with the value each parses to
JsonTable ==
    (TxtNodes :> ValNodes) @@ (TxtX1 :> ValX1) @@ (TxtPW :> ValPW)
    @@ (TxtNodesP :> ValNodesP) @@ (TxtNodesPStr :> ValNodesPStr)
    @@ (TxtPWStr :> ValPWStr) @@ (TxtPStr :> ValPStr) @@ (TxtList :> ValList)
    @@ (TxtX1Pretty :> ValX1)

\* _try_json: the parsed value, None when json.loads raises (and for a
\* value that is not text)
_try_json(text) ==
    IF text \in DOMAIN JsonTable /\ JsonTable[text] # JNull
    THEN Some(JsonTable[text]) ELSE None

(***************************************************************************)
(* PNG byte layout and zlib streams: the buffers the model's files hold    *)
(***************************************************************************)
PNG_SIG == <<137, 80, 78, 71, 13, 10, 26, 10>>
TypeIHDR == <<73, 72, 68, 82>>
TypetEXt == <<116, 69, 88, 116>>
TypezTXt == <<122, 84, 88, 116>>
TypeiTXt == <<105, 84, 88, 116>>
TypeIEND == <<73, 69, 78, 68>>
KeyWorkflow == <<119, 111, 114, 107, 102, 108, 111, 119>>      \* "workflow"
KeyWorkflowCap == <<87, 111, 114, 107, 102, 108, 111, 119>>    \* "Workflow"
KeyPrompt == <<112, 114, 111, 109, 112, 116>>                  \* "prompt"
KeyPromptCap == <<80, 114, 111, 109, 112, 116>>                \* "Prompt"

RECURSIVE SumBytes(_)
SumBytes(b) == IF b = <<>> THEN 0 ELSE b[1] + SumBytes(Tail(b))

\* a zlib stream, reduced to a stored block: header 0x78 0x9C, the bytes,
\* and a one-byte checksum
Compress(b) == <<120, 156>> \o b \o <<SumBytes(b) % 256>>

\* a big-endian u32, as struct.pack(">I", n)
PackU32(n) == <<(n \div 16777216) % 256, (n \div 65536) % 256, (n \div 256) % 256, n % 256>>

\* one chunk: length, type, payload, CRC (never verified: zeros)
Chunk(type, payload) == PackU32(Len(payload)) \o type \o payload \o <<0, 0, 0, 0>>

ChunkIHDR(w, h) == Chunk(TypeIHDR, PackU32(w) \o PackU32(h) \o <<8, 6, 0, 0, 0>>)
ChunktEXt(key, text) == Chunk(TypetEXt, key \o <<0>> \o text)
ChunkzTXt(key, stream) == Chunk(TypezTXt, key \o <<0, 0>> \o stream)
ChunkiTXt(key, flag, value) == Chunk(TypeiTXt, key \o <<0, flag, 0, 0, 0>> \o value)
ChunkIEND == Chunk(TypeIEND, <<>>)

\* a 2x3 image carrying a workflow as tEXt
PngWorkflow ==
    PNG_SIG \o ChunkIHDR(2, 3) \o ChunktEXt(KeyWorkflow, TxtNodes) \o ChunkIEND
\* a 4x1 image carrying a prompt as zTXt and a broken workflow as iTXt
PngPrompt ==
    PNG_SIG \o ChunkIHDR(4, 1) \o ChunkzTXt(KeyPrompt, Compress(TxtX1))
    \o ChunkiTXt(KeyWorkflowCap, 0, TxtBad) \o ChunkIEND
\* a PNG whose signature was mangled in transfer (CR LF turned into LF LF),
\* its chunks intact
PngNotPng == <<137, 80, 78, 71, 10, 10, 26, 10>> \o ChunkIHDR(2, 3) \o ChunkIEND
\* a PNG cut inside its first chunk header
PngTruncated == PNG_SIG \o <<0, 0, 0>>

(***************************************************************************)
(* The filesystem                                                          *)
(***************************************************************************)
Dir == [kind |-> "dir", data |-> <<>>]
File(bytes) == [kind |-> "file", data |-> bytes]

\* file contents (bytes)
DataText == <<104, 105>>                       \* b"hi"
DataSecret == <<107, 101, 121>>                \* b"key"
DataVideo == <<0, 0, 0, 24>>                   \* the head of a video container

\* what always exists: the root "/", the sandbox root "/r", its sibling "/rx"
\* whose name has the sandbox root's name as a prefix, and two files outside
FixedTree ==
    (<<>> :> Dir) @@ (<<NameR>> :> Dir) @@ (<<NameRx>> :> Dir)
    @@ (<<NameRx, NameAPng>> :> File(PngWorkflow))
    @@ (<<NameAPng>> :> File(DataSecret))

\* files that may exist under the sandbox root
InsideFiles ==
    { <<<<NameR, NameAPng>>, PngWorkflow>>,
      <<<<NameR, NameDotH>>, DataText>>,
      <<<<NameR, NameSub, NameAPng>>, PngNotPng>>,
      <<<<NameR, NameRx, NameAPng>>, PngPrompt>>,
      <<<<NameR, NameSub, NameVMp4>>, DataVideo>>,
      <<<<NameR, NameSub, NameDotH, NameAPng>>, PngTruncated>> }

\* the proper ancestors of a path below the sandbox root
Ancestors(p) == { SubSeq(p, 1, n) : n \in 1..(Len(p) - 1) }

\* the tree holding the files F (each with its ancestor directories)
TreeOf(F) ==
    LET files == { f[1] : f \in F }
        dirs == UNION { Ancestors(p) : p \in files }
        data(p) == (CHOOSE f \in F : f[1] = p)[2]
    IN  [p \in (DOMAIN FixedTree) \cup files \cup dirs |->
            IF p \in files THEN File(data(p))
            ELSE IF p \in DOMAIN FixedTree THEN FixedTree[p]
            ELSE Dir]

Exists(p) == p \in DOMAIN fs
IsDir(p) == Exists(p) /\ fs[p].kind = "dir"
IsFile(p) == Exists(p) /\ fs[p].kind = "file"

\* Path.iterdir(): the direct children of a directory
Children(d) == { p \in DOMAIN fs : Len(p) = Len(d) + 1 /\ SubSeq(p, 1, Len(d)) = d }

\* Path.glob("*") in place of rglob: the direct children only
DescendantsDirect(d) == { p \in DOMAIN fs : Len(p) = Len(d) + 1 /\ SubSeq(p, 1, Len(d)) = d }

\* Path.rglob("*"): every descendant of a directory, at any depth
Descendants(d) == { p \in DOMAIN fs : Len(p) > Len(d) /\ SubSeq(p, 1, Len(d)) = d }

\* whether path p is base or lies under base (what Path.relative_to accepts)
IsUnder(p, base) == Len(p) >= Len(base) /\ SubSeq(p, 1, Len(base)) = base

\* Path.relative_to(base), for a path under base
RelativeTo(p, base) == SubSeq(p, Len(base) + 1, Len(p))

\* str(rel) with the empty relative path as "" instead of "."
RelStrEmpty(rel) == JoinSlash(rel)

\* str(rel) of a relative path: "." when it has no segment
RelStr(rel) == IF rel = <<>> THEN <<Ch.dot>> ELSE JoinSlash(rel)

\* Path.name: the last segment, "" for the filesystem root
PathName(p) == IF p = <<>> THEN <<>> ELSE p[Len(p)]

(***************************************************************************)
(* Callers' inputs                                                         *)
(***************************************************************************)
SegPool == {DotDot, NameRx, NameSub, NameDotH, NameAPng, NameVMp4}

RECURSIVE SeqsUpTo(_, _)
SeqsUpTo(S, n) ==
    IF n = 0 THEN {<<>>}
    ELSE LET shorter == SeqsUpTo(S, n - 1)
         IN  shorter \cup { Append(q, x) : q \in shorter, x \in S }

\* the relative paths a caller may send; <<>> stands for "" and for None
RelPaths == SeqsUpTo(SegPool, MaxSegs)

(***************************************************************************)
(* The path guard                                                          *)
(***************************************************************************)
\* a guard that lets only the root itself through
GuardAcceptsRootOnly(target, base) == PathStr(target) = PathStr(base)

\* the containment test each entry point applies to a resolved target
GuardAccepts(target, base) == StartsWith(PathStr(target), PathStr(base))

\* get_safe_path: the resolved target, or None
get_safe_path(relative_path) ==
    LET target == Resolve(Workdir \o relative_path)
    IN  IF ~GuardAccepts(target, Workdir) THEN None ELSE Some(target)

(***************************************************************************)
(* browse                                                                  *)
(***************************************************************************)
BrowseError(msg) ==
    [kind |-> "listing", error |-> Some(msg), folders |-> <<>>, files |-> <<>>,
     current |-> <<>>, parts |-> <<>>, can_go_up |-> FALSE]

\* browse's target without the call to resolve()
BrowseTargetUnresolved(relative_path) == Workdir \o relative_path

\* the target browse lists
BrowseTarget(relative_path) ==
    IF relative_path # <<>> THEN Resolve(Workdir \o relative_path) ELSE Workdir

\* what browse's guard lets through
BrowseResolved(relative_path) ==
    IF ~GuardAccepts(BrowseTarget(relative_path), Workdir) THEN None
    ELSE Some(BrowseTarget(relative_path))

\* a listing that shows every entry
VisibleAll(e) == TRUE

\* whether a listing shows the entry
Visible(e) == ~StartsWith(PathName(e), <<Ch.dot>>)

browse(relative_path) ==
    LET base == Workdir
        current == BrowseTarget(relative_path)
    IN  IF BrowseResolved(relative_path) = None THEN BrowseError("Access denied")
        ELSE IF ~Exists(current) THEN BrowseError("FileNotFoundError")
        ELSE IF ~IsDir(current) THEN BrowseError("NotADirectoryError")
        ELSE LET entries == Children(current)
                 folders == Sorted({ PathName(e) : e \in
                                { x \in entries : IsDir(x) /\ Visible(x) } })
                 files == Sorted({ PathName(e) : e \in
                                { x \in entries : IsFile(x) /\ Visible(x) } })
             IN  IF ~IsUnder(current, base) THEN BrowseError("ValueError")
                 ELSE LET rel == RelativeTo(current, base)
                          parts == IF RelStr(rel) # <<Ch.dot>> THEN rel ELSE <<>>
                      IN  [kind |-> "listing", error |-> None,
                           folders |-> folders, files |-> files,
                           current |-> IF RelStr(rel) # <<Ch.dot>>
                                       THEN ReplaceBackslash(RelStr(rel)) ELSE <<>>,
                           parts |-> parts,
                           can_go_up |-> RelStr(rel) # <<Ch.dot>>]

(***************************************************************************)
(* get_preview                                                             *)
(***************************************************************************)
PREVIEW_EXTS ==
    { <<46, 106, 112, 103>>,                      \* ".jpg"
      <<46, 106, 112, 101, 103>>,                 \* ".jpeg"
      <<46, 112, 110, 103>>,                      \* ".png"
      <<46, 103, 105, 102>>,                      \* ".gif"
      <<46, 119, 101, 98, 112>>,                  \* ".webp"
      <<46, 98, 109, 112>>,                       \* ".bmp"
      <<46, 115, 118, 103>>,                      \* ".svg"
      <<46, 105, 99, 111>>,                       \* ".ico"
      <<46, 116, 105, 102, 102>>,                 \* ".tiff"
      <<46, 97, 118, 105, 102>>,                  \* ".avif"
      <<46, 109, 112, 52>>,                       \* ".mp4"
      <<46, 119, 101, 98, 109>>,                  \* ".webm"
      <<46, 111, 103, 103>>,                      \* ".ogg"
      <<46, 109, 111, 118>> }                     \* ".mov"

VIDEO_EXTS ==
    { <<46, 109, 112, 52>>,                       \* ".mp4"
      <<46, 119, 101, 98, 109>>,                  \* ".webm"
      <<46, 111, 103, 103>>,                      \* ".ogg"
      <<46, 109, 111, 118>>,                      \* ".mov"
      <<46, 109, 107, 118>>,                      \* ".mkv"
      <<46, 97, 118, 105>> }                      \* ".avi"

ExtPng == <<46, 112, 110, 103>>                   \* ".png"

\* str.rfind(".") on a name, 1-based; 0 when there is no dot
LastDot(name) ==
    LET dots == { i \in 1..Len(name) : name[i] = Ch.dot }
    IN  IF dots = {} THEN 0 ELSE CHOOSE i \in dots : \A j \in dots : j <= i

\* Path.suffix: from the last dot, unless the dot leads or ends the name
Suffix(p) ==
    LET name == PathName(p)
        i == LastDot(name)
    IN  IF 1 < i /\ i < Len(name) THEN SubSeq(name, i, Len(name)) ELSE <<>>

\* str.lower() on ASCII text
Lower(s) == [i \in 1..Len(s) |-> IF s[i] >= 65 /\ s[i] <= 90 THEN s[i] + 32 ELSE s[i]]

\* mimetypes.guess_type, on the extensions of the model's files
GuessType(p) ==
    LET ext == Lower(Suffix(p))
    IN  IF ext = ExtPng THEN Some("image/png")
        ELSE IF ext = <<46, 109, 112, 52>> THEN Some("video/mp4")
        ELSE None

Raise(exc) == [kind |-> "raise", exc |-> exc]

get_preview(path) ==
    LET target == get_safe_path(path)
    IN  IF target = None \/ ~IsFile(target[1]) THEN Raise("FileNotFoundError")
        ELSE IF Lower(Suffix(target[1])) \notin PREVIEW_EXTS THEN Raise("PermissionError")
        ELSE LET media_type == GuessType(target[1])
             IN  [kind |-> "preview",
                  content |-> fs[target[1]].data,
                  media_type |-> IF media_type # None THEN media_type[1]
                                 ELSE "application/octet-stream",
                  cache_max_age |-> 3600]

(***************************************************************************)
(* build_zip                                                               *)
(***************************************************************************)
\* the order of Path comparison: segment by segment
RECURSIVE PathLess(_, _)
PathLess(a, b) ==
    IF a = <<>> THEN b # <<>>
    ELSE IF b = <<>> THEN FALSE
    ELSE IF a[1] # b[1] THEN StrLess(a[1], b[1])
    ELSE PathLess(Tail(a), Tail(b))

\* sorted(...) of a collection of distinct paths
RECURSIVE SortedPaths(_)
SortedPaths(S) ==
    IF S = {} THEN <<>>
    ELSE LET m == CHOOSE x \in S : \A y \in S : x = y \/ PathLess(x, y)
         IN  <<m>> \o SortedPaths(S \ {m})

\* the target build_zip archives
ZipTarget(relative_path) ==
    IF relative_path # <<>> THEN Resolve(Workdir \o relative_path) ELSE Workdir

\* whether build_zip writes the path fp into the archive
ZipIncludes(fp) == IsFile(fp) /\ ~StartsWith(PathName(fp), <<Ch.dot>>)

\* the members zf.write adds, in order: the archive name is the path relative
\* to the target, joined with "/"; DEFLATE is lossless, the bytes are kept
RECURSIVE ZipMembers(_, _)
ZipMembers(paths, target) ==
    IF paths = <<>> THEN <<>>
    ELSE LET fp == Head(paths)
             rest == ZipMembers(Tail(paths), target)
         IN  IF ZipIncludes(fp)
             THEN <<[name |-> JoinSlash(RelativeTo(fp, target)), data |-> fs[fp].data]>> \o rest
             ELSE rest

\* the suggested filename
ZipFilename(target) ==
    (IF PathName(target) # <<>> THEN PathName(target)
     ELSE <<101, 120, 112, 111, 114, 116>>)       \* "export"
    \o <<46, 122, 105, 112>>                      \* ".zip"

\* what build_zip's guard lets through
ZipResolved(relative_path) ==
    IF ~GuardAccepts(ZipTarget(relative_path), Workdir) THEN None
    ELSE Some(ZipTarget(relative_path))

build_zip(relative_path) ==
    LET target == ZipTarget(relative_path)
    IN  IF ZipResolved(relative_path) = None THEN Raise("PermissionError")
        ELSE IF ~IsDir(target) THEN Raise("ValueError")
        ELSE [kind |-> "zip",
              archive |-> ZipMembers(SortedPaths(Descendants(target)), target),
              filename |-> ZipFilename(target)]

(***************************************************************************)
(* FileMetadata and the PNG chunk parser                                   *)
(***************************************************************************)
\* FileMetadata(): every field at its default
FileMetadata ==
    [kind |-> "meta",
     width |-> None, height |-> None, workflow |-> None, prompt |-> None,
     raw_text_chunks |-> <<>>,
     duration |-> None, fps |-> None, video_codec |-> None, comment |-> None,
     error |-> None]

\* data[a:b] with Python's clipping; a and b count from 0
Slice(data, a, b) ==
    LET hi == IF b < Len(data) THEN b ELSE Len(data)
    IN  IF a >= hi THEN <<>> ELSE SubSeq(data, a + 1, hi)

\* data[a:]
SliceFrom(data, a) == Slice(data, a, Len(data))

\* bytes.find(b"\x00"): the 0-based index of the first NUL, -1 when none
FindNul(data) ==
    LET hits == { i \in 1..Len(data) : data[i] = Ch.nul }
    IN  IF hits = {} THEN -1 ELSE (CHOOSE i \in hits : \A j \in hits : i <= j) - 1

\* struct.unpack(">I", four bytes)
UnpackU32(b) == ((b[1] * 256 + b[2]) * 256 + b[3]) * 256 + b[4]

\* zlib.decompress: the bytes of a well-formed stream, None when it raises
Decompress(b) ==
    IF /\ Len(b) >= 3
       /\ b[1] = 120 /\ b[2] = 156
       /\ b[Len(b)] = SumBytes(SubSeq(b, 3, Len(b) - 1)) % 256
    THEN Some(SubSeq(b, 3, Len(b) - 1))
    ELSE None

\* bytes.decode("utf-8"): None when it raises (the model's buffers hold no
\* multi-byte sequence, so a byte above 127 is malformed)
DecodeUtf8Strict(b) == IF \E i \in 1..Len(b) : b[i] > 127 THEN None ELSE Some(b)

\* bytes.decode("utf-8", errors="replace"): U+FFFD for a malformed byte
DecodeUtf8Replace(b) == [i \in 1..Len(b) |-> IF b[i] > 127 THEN 65533 ELSE b[i]]

\* raw_text_chunks keeping the first value stored for a key
SetChunkKeepFirst(meta, key, value) ==
    [meta EXCEPT !.raw_text_chunks = meta.raw_text_chunks @@ (key :> value)]

\* meta.raw_text_chunks[key] = value
SetChunk(meta, key, value) ==
    [meta EXCEPT !.raw_text_chunks = (key :> value) @@ meta.raw_text_chunks]

ParsetEXt(meta, chunk_data) ==
    LET nul == FindNul(chunk_data)
    IN  IF nul # -1
        THEN SetChunk(meta, Slice(chunk_data, 0, nul), SliceFrom(chunk_data, nul + 1))
        ELSE meta

\* ParsezTXt keeping the key of a chunk whose payload fails to decompress,
\* with an empty text
ParsezTXtKeepsKey(meta, chunk_data) ==
    LET nul == FindNul(chunk_data)
    IN  IF nul # -1 /\ Len(chunk_data) > nul + 2
        THEN LET key == Slice(chunk_data, 0, nul)
                 value == Decompress(SliceFrom(chunk_data, nul + 2))
             IN  SetChunk(meta, key, IF value # None THEN value[1] ELSE <<>>)
        ELSE meta

ParsezTXt(meta, chunk_data) ==
    LET nul == FindNul(chunk_data)
    IN  IF nul # -1 /\ Len(chunk_data) > nul + 2
        THEN LET key == Slice(chunk_data, 0, nul)
                 value == Decompress(SliceFrom(chunk_data, nul + 2))
             IN  IF value # None THEN SetChunk(meta, key, value[1]) ELSE meta
        ELSE meta

ParseiTXt(meta, chunk_data) ==
    LET nul == FindNul(chunk_data)
    IN  IF nul # -1 /\ Len(chunk_data) > nul + 3
        THEN LET key == DecodeUtf8Replace(Slice(chunk_data, 0, nul))
                 compression_flag == chunk_data[nul + 2]
                 rest0 == SliceFrom(chunk_data, nul + 3)
                 nul2 == FindNul(rest0)
                 rest1 == IF nul2 # -1 THEN SliceFrom(rest0, nul2 + 1) ELSE rest0
                 nul3 == FindNul(rest1)
                 rest == IF nul3 # -1 THEN SliceFrom(rest1, nul3 + 1) ELSE rest1
                 inflated == Decompress(rest)
                 text == IF compression_flag # 0
                         THEN (IF inflated = None THEN None ELSE DecodeUtf8Strict(inflated[1]))
                         ELSE Some(DecodeUtf8Replace(rest))
             IN  IF text # None THEN SetChunk(meta, key, text[1]) ELSE meta
        ELSE meta

\* the chunk loop failing on bytes left over after the last chunk: an error
\* in place of what was accumulated
RECURSIVE ChunkLoopStrict(_, _, _)
ChunkLoopStrict(data, offset, meta) ==
    IF ~(offset + 8 <= Len(data))
    THEN (IF offset < Len(data)
          THEN [FileMetadata EXCEPT !.error = Some("Truncated PNG file")]
          ELSE meta)
    ELSE LET length == UnpackU32(Slice(data, offset, offset + 4))
             chunk_type == Slice(data, offset + 4, offset + 8)
             chunk_data == Slice(data, offset + 8, offset + 8 + length)
             next == offset + 12 + length
         IN  IF chunk_type = TypeIHDR /\ Len(chunk_data) >= 8
             THEN ChunkLoopStrict(data, next,
                    [meta EXCEPT !.width = Some(UnpackU32(Slice(chunk_data, 0, 4))),
                                 !.height = Some(UnpackU32(Slice(chunk_data, 4, 8)))])
             ELSE IF chunk_type = TypetEXt
             THEN ChunkLoopStrict(data, next, ParsetEXt(meta, chunk_data))
             ELSE IF chunk_type = TypezTXt
             THEN ChunkLoopStrict(data, next, ParsezTXt(meta, chunk_data))
             ELSE IF chunk_type = TypeiTXt
             THEN ChunkLoopStrict(data, next, ParseiTXt(meta, chunk_data))
             ELSE IF chunk_type = TypeIEND
             THEN meta
             ELSE ChunkLoopStrict(data, next, meta)

\* the chunk loop going on past IEND
RECURSIVE ChunkLoopPastIEND(_, _, _)
ChunkLoopPastIEND(data, offset, meta) ==
    IF ~(offset + 8 <= Len(data)) THEN meta
    ELSE LET length == UnpackU32(Slice(data, offset, offset + 4))
             chunk_type == Slice(data, offset + 4, offset + 8)
             chunk_data == Slice(data, offset + 8, offset + 8 + length)
             next == offset + 12 + length
         IN  IF chunk_type = TypeIHDR /\ Len(chunk_data) >= 8
             THEN ChunkLoopPastIEND(data, next,
                    [meta EXCEPT !.width = Some(UnpackU32(Slice(chunk_data, 0, 4))),
                                 !.height = Some(UnpackU32(Slice(chunk_data, 4, 8)))])
             ELSE IF chunk_type = TypetEXt
             THEN ChunkLoopPastIEND(data, next, ParsetEXt(meta, chunk_data))
             ELSE IF chunk_type = TypezTXt
             THEN ChunkLoopPastIEND(data, next, ParsezTXt(meta, chunk_data))
             ELSE IF chunk_type = TypeiTXt
             THEN ChunkLoopPastIEND(data, next, ParseiTXt(meta, chunk_data))
             ELSE ChunkLoopPastIEND(data, next, meta)

\* the chunk loop, from a 0-based offset
RECURSIVE ChunkLoop(_, _, _)
ChunkLoop(data, offset, meta) ==
    IF ~(offset + 8 <= Len(data)) THEN meta
    ELSE LET length == UnpackU32(Slice(data, offset, offset + 4))
             chunk_type == Slice(data, offset + 4, offset + 8)
             chunk_data == Slice(data, offset + 8, offset + 8 + length)
             next == offset + 12 + length
         IN  IF chunk_type = TypeIHDR /\ Len(chunk_data) >= 8
             THEN ChunkLoop(data, next,
                    [meta EXCEPT !.width = Some(UnpackU32(Slice(chunk_data, 0, 4))),
                                 !.height = Some(UnpackU32(Slice(chunk_data, 4, 8)))])
             ELSE IF chunk_type = TypetEXt
             THEN ChunkLoop(data, next, ParsetEXt(meta, chunk_data))
             ELSE IF chunk_type = TypezTXt
             THEN ChunkLoop(data, next, ParsezTXt(meta, chunk_data))
             ELSE IF chunk_type = TypeiTXt
             THEN ChunkLoop(data, next, ParseiTXt(meta, chunk_data))
             ELSE IF chunk_type = TypeIEND
             THEN meta
             ELSE ChunkLoop(data, next, meta)

\* the lift trying the second candidate key when the first one's text does
\* not parse
LiftAnyParsed(raw, first, second) ==
    IF first \in DOMAIN raw /\ _try_json(raw[first]) # None THEN _try_json(raw[first])
    ELSE IF second \in DOMAIN raw THEN _try_json(raw[second])
    ELSE None

\* the lift of one ComfyUI payload: the first candidate key present decides
Lift(raw, first, second) ==
    IF first \in DOMAIN raw THEN _try_json(raw[first])
    ELSE IF second \in DOMAIN raw THEN _try_json(raw[second])
    ELSE None

\* _parse_png without the return after the signature check: the error is
\* set and the chunks are parsed all the same
_parse_png_no_return(read) ==
    IF read.kind = "oserror" THEN [FileMetadata EXCEPT !.error = Some("OSError")]
    ELSE LET meta == ChunkLoop(read.data, 8, FileMetadata)
             lifted == [meta EXCEPT
                          !.workflow = Lift(meta.raw_text_chunks, KeyWorkflow, KeyWorkflowCap),
                          !.prompt = Lift(meta.raw_text_chunks, KeyPrompt, KeyPromptCap)]
         IN  IF ~StartsWith(read.data, PNG_SIG)
             THEN [lifted EXCEPT !.error = Some("Not a valid PNG file")]
             ELSE lifted

\* _parse_png on the outcome of path.read_bytes(): the bytes, or an OSError
_parse_png(read) ==
    IF read.kind = "oserror" THEN [FileMetadata EXCEPT !.error = Some("OSError")]
    ELSE IF ~StartsWith(read.data, PNG_SIG)
    THEN [FileMetadata EXCEPT !.error = Some("Not a valid PNG file")]
    ELSE LET meta == ChunkLoop(read.data, 8, FileMetadata)
         IN  [meta EXCEPT
                !.workflow = Lift(meta.raw_text_chunks, KeyWorkflow, KeyWorkflowCap),
                !.prompt = Lift(meta.raw_text_chunks, KeyPrompt, KeyPromptCap)]

(***************************************************************************)
(* The video parser: ffprobe's outcome, then its JSON document             *)
(***************************************************************************)
\* dict.get(key, default)
DictGet(d, key, default) == IF key \in DOMAIN Val(d) THEN Val(d)[key] ELSE default

\* Python's truth value of a JSON value
Truthy(j) ==
    IF TypeOf(j) = "null" THEN FALSE
    ELSE IF TypeOf(j) = "int" THEN Val(j) # 0
    ELSE IF TypeOf(j) = "dict" THEN DOMAIN Val(j) # {}
    ELSE Val(j) # <<>>

\* a or b
PyOr(a, b) == IF Truthy(a) THEN a ELSE b

\* the value a metadata field holds for a JSON value: None for null, the
\* number or the text itself, any other value as it is
Field(j) ==
    IF TypeOf(j) = "null" THEN None
    ELSE IF TypeOf(j) = "int" \/ TypeOf(j) = "str" THEN Some(Val(j))
    ELSE Some(j)

IsDigit(c) == c >= 48 /\ c <= 57

RECURSIVE DigitsValue(_)
DigitsValue(s) == IF s = <<>> THEN 0 ELSE DigitsValue(SubSeq(s, 1, Len(s) - 1)) * 10 + (s[Len(s)] - 48)

\* int(text) giving 0 for a text that is no number
IntParseZeroOnError(s) ==
    LET neg == s # <<>> /\ s[1] = 45
        body == IF s # <<>> /\ (s[1] = 45 \/ s[1] = 43) THEN Tail(s) ELSE s
    IN  IF body = <<>> \/ \E i \in 1..Len(body) : ~IsDigit(body[i]) THEN Some(0)
        ELSE Some(IF neg THEN 0 - DigitsValue(body) ELSE DigitsValue(body))

\* int(text): None when it raises ValueError
IntParse(s) ==
    LET neg == s # <<>> /\ s[1] = 45
        body == IF s # <<>> /\ (s[1] = 45 \/ s[1] = 43) THEN Tail(s) ELSE s
    IN  IF body = <<>> \/ \E i \in 1..Len(body) : ~IsDigit(body[i]) THEN None
        ELSE Some(IF neg THEN 0 - DigitsValue(body) ELSE DigitsValue(body))

\* float(text) in thousandths, for plain decimals of at most three places:
\* None when it raises ValueError
FloatParse(s) ==
    LET dots == { i \in 1..Len(s) : s[i] = Ch.dot }
        dot == IF dots = {} THEN Len(s) + 1 ELSE CHOOSE i \in dots : TRUE
        whole == SubSeq(s, 1, dot - 1)
        frac == SubSeq(s, dot + 1, Len(s))
        scale == IF Len(frac) = 0 THEN 1000 ELSE IF Len(frac) = 1 THEN 100
                 ELSE IF Len(frac) = 2 THEN 10 ELSE 1
    IN  IF \/ Cardinality(dots) > 1
           \/ whole \o frac = <<>>
           \/ Len(frac) > 3
           \/ \E i \in 1..Len(whole \o frac) : ~IsDigit((whole \o frac)[i])
        THEN None
        ELSE Some(DigitsValue(whole) * 1000 + DigitsValue(frac) * scale)

\* round(num / den, 3) in thousandths, den # 0
RoundMilli(num, den) ==
    LET n == IF den < 0 THEN 0 - num ELSE num
        d == IF den < 0 THEN 0 - den ELSE den
    IN  (2000 * n + d) \div (2 * d)

TxtVideo == <<118, 105, 100, 101, 111>>            \* "video"

\* the frame rate of a stream: the new fps field, or a raise
FpsOf(meta, stream) ==
    LET fps_str == PyOr(DictGet(stream, "r_frame_rate", JNull),
                        DictGet(stream, "avg_frame_rate", JStr(<<>>)))
    IN  IF TypeOf(fps_str) = "int" \/ TypeOf(fps_str) = "null" THEN Raise("TypeError")
        ELSE IF TypeOf(fps_str) = "list"
        THEN (IF \E i \in 1..Len(Val(fps_str)) : Val(fps_str)[i] = JStr(<<Ch.slash>>)
              THEN Raise("AttributeError") ELSE meta)
        ELSE IF TypeOf(fps_str) = "dict"
        THEN (IF "/" \in DOMAIN Val(fps_str) THEN Raise("AttributeError") ELSE meta)
        ELSE LET slashes == { i \in 1..Len(Val(fps_str)) : Val(fps_str)[i] = Ch.slash }
             IN  IF slashes = {} THEN meta
                 ELSE LET cut == CHOOSE i \in slashes : \A j \in slashes : i <= j
                          num == IntParse(SubSeq(Val(fps_str), 1, cut - 1))
                          den == IntParse(SubSeq(Val(fps_str), cut + 1, Len(Val(fps_str))))
                      IN  IF den = None THEN meta
                          ELSE IF den[1] = 0 THEN [meta EXCEPT !.fps = None]
                          ELSE IF num = None THEN meta
                          ELSE [meta EXCEPT !.fps = Some(RoundMilli(num[1], den[1]))]

\* the loop over a list of streams: the first video stream fills the fields
RECURSIVE StreamLoop(_, _)
StreamLoop(meta, streams) ==
    IF streams = <<>> THEN meta
    ELSE LET stream == Head(streams)
         IN  IF TypeOf(stream) # "dict" THEN Raise("AttributeError")
             ELSE IF DictGet(stream, "codec_type", JNull) # JStr(TxtVideo)
             THEN StreamLoop(meta, Tail(streams))
             ELSE FpsOf([meta EXCEPT
                            !.width = Field(DictGet(stream, "width", JNull)),
                            !.height = Field(DictGet(stream, "height", JNull)),
                            !.video_codec = Field(DictGet(stream, "codec_name", JNull))],
                        stream)

\* for stream in data.get("streams", [])
StreamPass(meta, streams) ==
    IF TypeOf(streams) = "list" THEN StreamLoop(meta, Val(streams))
    ELSE IF TypeOf(streams) = "int" \/ TypeOf(streams) = "null" THEN Raise("TypeError")
    ELSE IF Truthy(streams) THEN Raise("AttributeError")
    ELSE meta

\* float(fmt.get("duration", 0)) or None, TypeError and ValueError passed over
DurationOf(meta, d) ==
    IF TypeOf(d) = "int"
    THEN [meta EXCEPT !.duration = IF Val(d) = 0 THEN None ELSE Some(Val(d) * 1000)]
    ELSE IF TypeOf(d) = "str"
    THEN LET f == FloatParse(Val(d))
         IN  IF f = None THEN meta
             ELSE [meta EXCEPT !.duration = IF f[1] = 0 THEN None ELSE f]
    ELSE meta

\* _try_json of a tag value: json.loads raises on anything but text
TagJson(raw) == IF TypeOf(raw) = "str" THEN _try_json(Val(raw)) ELSE None

IsObj(parsed) == parsed # None /\ TypeOf(parsed[1]) = "dict"

\* the Comment tag with the prompt key tested before the nodes key
CommentPassPromptFirst(meta, tags) ==
    LET comment_raw == PyOr(DictGet(tags, "comment", JNull),
                            PyOr(DictGet(tags, "Comment", JNull),
                                 DictGet(tags, "COMMENT", JNull)))
    IN  IF ~Truthy(comment_raw) THEN meta
        ELSE LET m == [meta EXCEPT !.comment = Field(comment_raw)]
                 parsed == TagJson(comment_raw)
             IN  IF ~IsObj(parsed) THEN m
                 ELSE LET obj == parsed[1]
                      IN  IF "prompt" \in DOMAIN Val(obj)
                          THEN [m EXCEPT
                                  !.prompt = Field(Val(obj)["prompt"]),
                                  !.workflow = IF "workflow" \in DOMAIN Val(obj)
                                                  /\ TypeOf(Val(obj)["workflow"]) = "dict"
                                               THEN Some(Val(obj)["workflow"]) ELSE m.workflow]
                          ELSE IF "nodes" \in DOMAIN Val(obj)
                          THEN [m EXCEPT !.workflow = Some(obj)]
                          ELSE [m EXCEPT !.prompt = Some(obj)]

\* the Comment tag
CommentPass(meta, tags) ==
    LET comment_raw == PyOr(DictGet(tags, "comment", JNull),
                            PyOr(DictGet(tags, "Comment", JNull),
                                 DictGet(tags, "COMMENT", JNull)))
    IN  IF ~Truthy(comment_raw) THEN meta
        ELSE LET m == [meta EXCEPT !.comment = Field(comment_raw)]
                 parsed == TagJson(comment_raw)
             IN  IF ~IsObj(parsed) THEN m
                 ELSE LET obj == parsed[1]
                      IN  IF "nodes" \in DOMAIN Val(obj)
                          THEN [m EXCEPT
                                  !.workflow = Some(obj),
                                  !.prompt = IF "prompt" \in DOMAIN Val(obj)
                                                /\ TypeOf(Val(obj)["prompt"]) = "dict"
                                             THEN Some(Val(obj)["prompt"]) ELSE m.prompt]
                          ELSE IF "prompt" \in DOMAIN Val(obj)
                          THEN [m EXCEPT
                                  !.prompt = Field(Val(obj)["prompt"]),
                                  !.workflow = IF "workflow" \in DOMAIN Val(obj)
                                                  /\ TypeOf(Val(obj)["workflow"]) = "dict"
                                               THEN Some(Val(obj)["workflow"]) ELSE m.workflow]
                          ELSE [m EXCEPT !.prompt = Some(obj)]

\* the first of three tag spellings that is present and truthy
FirstTag(tags, k1, k2, k3) ==
    IF Truthy(DictGet(tags, k1, JNull)) THEN Some(DictGet(tags, k1, JNull))
    ELSE IF Truthy(DictGet(tags, k2, JNull)) THEN Some(DictGet(tags, k2, JNull))
    ELSE IF Truthy(DictGet(tags, k3, JNull)) THEN Some(DictGet(tags, k3, JNull))
    ELSE None

\* the standalone workflow tag written over a workflow the Comment tag set
StandaloneWorkflowOverwrites(meta, tags) ==
    LET raw == FirstTag(tags, "workflow", "Workflow", "WORKFLOW")
    IN  IF raw = None THEN meta
        ELSE LET parsed == TagJson(raw[1])
             IN  IF IsObj(parsed) /\ "nodes" \in DOMAIN Val(parsed[1])
                 THEN [meta EXCEPT
                         !.workflow = parsed,
                         !.comment = IF meta.comment = None THEN Field(raw[1])
                                     ELSE meta.comment]
                 ELSE meta

\* the standalone workflow tag honored for any JSON object
StandaloneWorkflowAnyObject(meta, tags) ==
    LET raw == FirstTag(tags, "workflow", "Workflow", "WORKFLOW")
    IN  IF meta.workflow # None \/ raw = None THEN meta
        ELSE LET parsed == TagJson(raw[1])
             IN  IF IsObj(parsed)
                 THEN [meta EXCEPT
                         !.workflow = parsed,
                         !.comment = IF meta.comment = None THEN Field(raw[1])
                                     ELSE meta.comment]
                 ELSE meta

\* the standalone workflow tag, for a workflow still unset
StandaloneWorkflow(meta, tags) ==
    LET raw == FirstTag(tags, "workflow", "Workflow", "WORKFLOW")
    IN  IF meta.workflow # None \/ raw = None THEN meta
        ELSE LET parsed == TagJson(raw[1])
             IN  IF IsObj(parsed) /\ "nodes" \in DOMAIN Val(parsed[1])
                 THEN [meta EXCEPT
                         !.workflow = parsed,
                         !.comment = IF meta.comment = None THEN Field(raw[1])
                                     ELSE meta.comment]
                 ELSE meta

\* the standalone prompt tag, for a prompt still unset
StandalonePrompt(meta, tags) ==
    LET raw == FirstTag(tags, "prompt", "Prompt", "PROMPT")
    IN  IF meta.prompt # None \/ raw = None THEN meta
        ELSE LET parsed == TagJson(raw[1])
             IN  IF IsObj(parsed) THEN [meta EXCEPT !.prompt = parsed] ELSE meta

\* _parse_video on the outcome of subprocess.run
_parse_video(probe) ==
    IF probe.kind = "FileNotFoundError"
    THEN [FileMetadata EXCEPT
            !.error = Some("ffprobe not found; install ffmpeg to read video metadata")]
    ELSE IF probe.kind = "TimeoutExpired"
    THEN [FileMetadata EXCEPT !.error = Some("ffprobe timed out")]
    ELSE IF probe.kind = "OSError"
    THEN [FileMetadata EXCEPT !.error = Some("OSError")]
    ELSE IF probe.json = None
    THEN [FileMetadata EXCEPT !.error = Some("Failed to parse ffprobe output")]
    ELSE LET data == probe.json[1]
         IN  IF TypeOf(data) # "dict" THEN Raise("AttributeError")
             ELSE LET m1 == StreamPass(FileMetadata, DictGet(data, "streams", JList(<<>>)))
                      fmt == DictGet(data, "format", JDict(<<>>))
                  IN  IF m1.kind = "raise" THEN m1
                      ELSE IF TypeOf(fmt) # "dict" THEN Raise("AttributeError")
                      ELSE LET m2 == DurationOf(m1, DictGet(fmt, "duration", JInt(0)))
                               tags == DictGet(fmt, "tags", JDict(<<>>))
                           IN  IF TypeOf(tags) # "dict" THEN Raise("AttributeError")
                               ELSE StandalonePrompt(
                                      StandaloneWorkflow(CommentPass(m2, tags), tags), tags)

(***************************************************************************)
(* Other images, and get_file_meta                                         *)
(***************************************************************************)
\* _parse_generic_image on the outcome of Pillow's Image.open
_parse_generic_image(pil) ==
    IF pil.kind = "ok"
    THEN [FileMetadata EXCEPT !.width = Some(pil.width), !.height = Some(pil.height)]
    ELSE IF pil.kind = "ImportError"
    THEN [FileMetadata EXCEPT
            !.error = Some("Pillow not installed; cannot read non-PNG metadata")]
    ELSE [FileMetadata EXCEPT !.error = Some("UnidentifiedImageError")]

\* which parser get_file_meta hands the path to: "none" when it returns
\* "File not found" itself
Dispatch(path) ==
    LET target == get_safe_path(path)
    IN  IF target = None \/ ~IsFile(target[1]) THEN "none"
        ELSE IF Lower(Suffix(target[1])) = ExtPng THEN "png"
        ELSE IF Lower(Suffix(target[1])) \in VIDEO_EXTS THEN "video"
        ELSE "generic"

\* get_file_meta; e is what the environment answers to the one external
\* step of the call (the file read, the ffprobe run, or Pillow)
get_file_meta(path, e) ==
    LET target == get_safe_path(path)
    IN  IF target = None \/ ~IsFile(target[1])
        THEN [FileMetadata EXCEPT !.error = Some("File not found")]
        ELSE LET ext == Lower(Suffix(target[1]))
             IN  IF ext = ExtPng
                 THEN _parse_png(IF e.kind = "oserror" THEN e
                                 ELSE [kind |-> "bytes", data |-> fs[target[1]].data])
                 ELSE IF ext \in VIDEO_EXTS THEN _parse_video(e)
                 ELSE _parse_generic_image(e)

(***************************************************************************)
(* The environment's answers                                               *)
(***************************************************************************)
StreamAudio == JDict([codec_type |-> JStr(<<97, 117, 100, 105, 111>>)])     \* "audio"
StreamVideo ==
    JDict([codec_type |-> JStr(TxtVideo), width |-> JInt(640), height |-> JInt(480),
           codec_name |-> JStr(<<104, 50, 54, 52>>),                        \* "h264"
           r_frame_rate |-> JStr(<<51, 48, 47, 49>>)])                      \* "30/1"
StreamVideoBadFps ==
    JDict([codec_type |-> JStr(TxtVideo), width |-> JInt(640), height |-> JInt(480),
           r_frame_rate |-> JInt(30)])

\* documents ffprobe's stdout may parse to
DocFull ==
    JDict([streams |-> JList(<<StreamAudio, StreamVideo>>),
           format |-> JDict([duration |-> JStr(<<50, 46, 53>>),             \* "2.5"
                             tags |-> JDict([comment |-> JStr(TxtNodes)])])])
DocEmpty == JDict(<<>>)
DocList == JList(<<>>)
DocStreamsInt == JDict([streams |-> JInt(3)])
DocBadFps == JDict([streams |-> JList(<<StreamVideoBadFps>>)])
DocFormatList == JDict([format |-> JList(<<>>)])
DocTagsList == JDict([format |-> JDict([tags |-> JList(<<>>)])])

ProbeDocs == {DocFull, DocEmpty, DocList, DocStreamsInt, DocBadFps, DocFormatList, DocTagsList}

\* outcomes of subprocess.run(["ffprobe", ...], timeout=15): an exception,
\* or stdout, which json.loads parses (Some) or rejects (None)
ProbeOutcomes ==
    { [kind |-> k, json |-> None] : k \in {"FileNotFoundError", "TimeoutExpired", "OSError"} }
    \cup { [kind |-> "stdout", json |-> None] }
    \cup { [kind |-> "stdout", json |-> Some(d)] : d \in ProbeDocs }

ReadOutcomes == { [kind |-> "bytes"], [kind |-> "oserror"] }

PilOutcomes ==
    { [kind |-> "ok", width |-> 16, height |-> 9],
      [kind |-> "ImportError", width |-> 0, height |-> 0],
      [kind |-> "Exception", width |-> 0, height |-> 0] }

NoEnv == [kind |-> "unused"]

\* the answers that can matter to get_file_meta(path)
EnvChoices(path) ==
    IF Dispatch(path) = "png" THEN ReadOutcomes
    ELSE IF Dispatch(path) = "video" THEN ProbeOutcomes
    ELSE IF Dispatch(path) = "generic" THEN PilOutcomes
    ELSE {NoEnv}

(***************************************************************************)
(* The state machine: one call at a time, from idle to done and back       *)
(***************************************************************************)
NoResult == [kind |-> "none"]

\* the module state of dashboard_service right after import: nothing is
\* scheduled, the lock is free and no worker thread was started; epoch counts
\* the calls to schedule() so far
ShutIdle ==
    /\ sched = [scheduled |-> FALSE, time |-> <<>>, thread |-> <<>>, epoch |-> 0]
    /\ lock = <<>>
    /\ workers = <<>>
    /\ now = 0
    /\ fired = <<>>

\* no ffprobe child was started
NoChild == [spawned |-> 0, elapsed |-> 0, alive |-> FALSE]

Init ==
    /\ fs \in { TreeOf(F) : F \in SUBSET InsideFiles }
    /\ pc = "idle"
    /\ op = "none"
    /\ arg = <<>>
    /\ result = NoResult
    /\ env = NoEnv
    /\ resolved = None
    /\ child = NoChild
    /\ calls = <<>>
    /\ bufs = <<>>
    /\ ShutIdle

Browse ==
    /\ pc = "idle"
    /\ \E p \in RelPaths :
          /\ arg' = p
          /\ resolved' = BrowseResolved(p)
          /\ result' = browse(p)
    /\ pc' = "done"
    /\ op' = "browse"
    /\ env' = NoEnv
    /\ UNCHANGED <<fs, aux>>

GetPreview ==
    /\ pc = "idle"
    /\ \E p \in RelPaths :
          /\ arg' = p
          /\ resolved' = get_safe_path(p)
          /\ result' = get_preview(p)
    /\ pc' = "done"
    /\ op' = "get_preview"
    /\ env' = NoEnv
    /\ UNCHANGED <<fs, aux>>

BuildZip ==
    /\ pc = "idle"
    /\ \E p \in RelPaths :
          /\ arg' = p
          /\ resolved' = ZipResolved(p)
          /\ result' = build_zip(p)
    /\ pc' = "done"
    /\ op' = "build_zip"
    /\ env' = NoEnv
    /\ UNCHANGED <<fs, aux>>

GetFileMeta ==
    /\ pc = "idle"
    /\ \E p \in RelPaths : \E e \in EnvChoices(p) :
          /\ arg' = p
          /\ env' = e
          /\ resolved' = get_safe_path(p)
          /\ result' = get_file_meta(p, e)
    /\ pc' = "done"
    /\ op' = "get_file_meta"
    /\ UNCHANGED <<fs, aux>>

\* the router hands the response back; the service keeps nothing
Return ==
    /\ pc = "done"
    /\ pc' = "idle"
    /\ op' = "none"
    /\ arg' = <<>>
    /\ result' = NoResult
    /\ env' = NoEnv
    /\ resolved' = None
    /\ UNCHANGED <<fs, aux>>

Next ==
    \/ Browse
    \/ GetPreview
    \/ BuildZip
    \/ GetFileMeta
    \/ Return

Spec == Init /\ [][Next]_vars

(***************************************************************************)
(* Properties                                                              *)
(***************************************************************************)
\* the canonical path p is the sandbox root or lies under root + separator
InsideRoot(p) ==
    \/ PathStr(p) = PathStr(Workdir)
    \/ StartsWith(PathStr(p), PathStr(Workdir) \o <<Ch.slash>>)

\* the canonical resolution of the call's relative path
Canonical == Resolve(Workdir \o arg)

\* whether the call's path holds a ".." segment
HasDotDot == \E i \in 1..Len(arg) : arg[i] = DotDot

\* the call ended as its entry point ends for a refused path
Denied ==
    /\ resolved = None
    /\ op = "browse" => result.error = Some("Access denied")
    /\ op = "build_zip" => result.kind = "raise" /\ result.exc = "PermissionError"
    /\ op = "get_preview" => result.kind = "raise"
    /\ op = "get_file_meta" => result.error # None

\* C1: every relative path whose canonical resolution is neither the root
\* nor under root + separator is denied by the call's path guard (browse
\* answers "Access denied", build_zip raises PermissionError, get_safe_path
\* returns None), so nothing outside the root is listed, read or archived.
C1_OutsideRootIsDenied ==
    (pc = "done" /\ ~InsideRoot(Canonical)) => Denied

\* C2: every relative path that resolves inside the root is accepted by the
\* path guard, and the path it returns is the root or has root + separator
\* as a prefix.
C2_InsideRootIsAccepted ==
    (pc = "done" /\ InsideRoot(Canonical)) =>
        /\ resolved # None
        /\ InsideRoot(resolved[1])
        /\ op \in {"get_preview", "get_file_meta"} => resolved = get_safe_path(arg)

\* a call through get_safe_path whose path climbs with ".." and comes back
\* inside the root, accepted
C2_Witness ==
    /\ pc = "done"
    /\ op = "get_preview"
    /\ HasDotDot
    /\ InsideRoot(Canonical)
    /\ resolved = Some(<<NameR, NameSub>>)

RECURSIVE SplitSlash(_)
SplitSlash(text) ==
    LET cuts == { i \in 1..Len(text) : text[i] = Ch.slash }
    IN  IF cuts = {} THEN <<text>>
        ELSE LET cut == CHOOSE i \in cuts : \A j \in cuts : i <= j
             IN  <<SubSeq(text, 1, cut - 1)>> \o SplitSlash(SubSeq(text, cut + 1, Len(text)))

\* a call to build_zip that returned an archive
ZipDone == pc = "done" /\ op = "build_zip" /\ result.kind = "zip"

\* C4: no member of the archive build_zip returns has a path component (a
\* directory name or the file name) starting with ".": files inside a
\* dot-named directory are not archived.
C4_NoDotComponentInArchive ==
    ZipDone =>
        \A i \in 1..Len(result.archive) :
            LET parts == SplitSlash(result.archive[i].name)
            IN  \A k \in 1..Len(parts) : ~StartsWith(parts[k], <<Ch.dot>>)

\* what extracting an archive writes: relative path -> bytes, a later member
\* of the same name replacing an earlier one
Extract(archive) ==
    LET names == { archive[i].name : i \in 1..Len(archive) }
        last(n) == CHOOSE i \in 1..Len(archive) :
                      /\ archive[i].name = n
                      /\ \A j \in 1..Len(archive) : archive[j].name = n => j <= i
    IN  [rel \in { SplitSlash(n) : n \in names } |->
            archive[last(JoinSlash(rel))].data]

\* the files at any depth under directory d whose own name does not start
\* with "."
PlainFilesUnder(d) ==
    { f \in DOMAIN fs :
        /\ fs[f].kind = "file"
        /\ Len(f) > Len(d) /\ SubSeq(f, 1, Len(d)) = d
        /\ f[Len(f)][1] # Ch.dot }

\* C5: for a directory inside the root, extracting the archive build_zip
\* returns reproduces exactly the relative paths (at any depth) and the bytes
\* of the directory's files other than dot-files: none missing, added or
\* duplicated.
C5_ZipRoundTrip ==
    (ZipDone /\ InsideRoot(Canonical)) =>
        LET out == Extract(result.archive)
            src == PlainFilesUnder(Canonical)
        IN  /\ DOMAIN out = { SubSeq(f, Len(Canonical) + 1, Len(f)) : f \in src }
            /\ \A f \in src : out[SubSeq(f, Len(Canonical) + 1, Len(f))] = fs[f].data
            /\ Len(result.archive) = Cardinality(src)

\* the root archived with files at depth 1, 2 and 3 and a dot-file left out
C5_Witness ==
    /\ ZipDone
    /\ Canonical = Workdir
    /\ <<NameR, NameDotH>> \in DOMAIN fs
    /\ <<NameSub, NameAPng>> \in DOMAIN Extract(result.archive)
    /\ Len(result.archive) >= 4

\* C6: the filename build_zip suggests is the archived directory's own name
\* followed by ".zip", and "export.zip" when the archive is built from the
\* root itself.
C6_ZipFilename ==
    ZipDone =>
        result.filename =
            (IF resolved[1] = Workdir THEN <<101, 120, 112, 111, 114, 116>>
             ELSE resolved[1][Len(resolved[1])]) \o <<46, 122, 105, 112>>

\* a call to browse that returned
BrowseDone == pc = "done" /\ op = "browse"

\* strictly increasing in the lexicographic order of code points
IsSorted(names) == \A i \in 1..(Len(names) - 1) : StrLess(names[i], names[i + 1])

\* C7: no browse result, listing or error, holds in folders or files a name
\* starting with ".", and folders and files are each sorted
\* lexicographically by name.
C7_ListingHidesDotsAndIsSorted ==
    BrowseDone =>
        /\ \A i \in 1..Len(result.folders) : result.folders[i][1] # Ch.dot
        /\ \A i \in 1..Len(result.files) : result.files[i][1] # Ch.dot
        /\ IsSorted(result.folders)
        /\ IsSorted(result.files)

\* a listing of two folders and of two files, of directories that also hold
\* dot-named entries
C7_Witness ==
    /\ BrowseDone
    /\ result.error = None
    /\ \/ /\ Len(result.folders) = 2
          /\ Canonical \o <<NameDotH>> \in DOMAIN fs
       \/ /\ Len(result.files) = 2
          /\ Canonical \o <<NameDotH>> \in DOMAIN fs

\* C8: in a successful browse result can_go_up is true iff the listed
\* directory is not the root; at the root current is "" and parts is empty;
\* below the root parts is the sequence of segments from the root to the
\* listed directory (and current is their "/"-joined text).
C8_BrowsePosition ==
    (BrowseDone /\ result.error = None) =>
        /\ result.can_go_up = (resolved[1] # Workdir)
        /\ resolved[1] = Workdir => (result.current = <<>> /\ result.parts = <<>>)
        /\ Workdir \o result.parts = resolved[1]
        /\ SplitSlash(result.current) = (IF result.parts = <<>> THEN << <<>> >> ELSE result.parts)

\* a listing of the root reached through "..", and a listing two levels down
C8_Witness ==
    /\ BrowseDone
    /\ result.error = None
    /\ \/ HasDotDot /\ resolved = Some(Workdir) /\ ~result.can_go_up
       \/ Len(result.parts) = 2 /\ result.can_go_up

\* a call to get_file_meta that ended
MetaDone == pc = "done" /\ op = "get_file_meta"

\* the three failures of the external probe the error string tells apart
ProbeFailures ==
    { [kind |-> "FileNotFoundError", json |-> None],
      [kind |-> "TimeoutExpired", json |-> None],
      [kind |-> "stdout", json |-> None] }

\* C9: get_file_meta never raises: whatever the path and whatever the probe
\* does (tool absent, timeout, output that is not JSON, JSON of any shape) it
\* returns a FileMetadata; and absence of the tool, a timeout and unparsable
\* output give three different error strings.
C9_MetaNeverRaises ==
    MetaDone =>
        /\ result.kind = "meta"
        /\ env \in ProbeFailures =>
              \A other \in ProbeFailures \ {env} : _parse_video(other).error # result.error

\* the failure paths of get_file_meta: no file at the path inside the root,
\* an unreadable file, a bad PNG signature, the probe absent, timed out,
\* failing to start or printing no JSON, Pillow absent or rejecting the file
MetaFailure ==
    \/ resolved = None
    \/ ~IsFile(resolved[1])
    \/ env.kind \in {"oserror", "FileNotFoundError", "TimeoutExpired", "OSError",
                     "ImportError", "Exception"}
    \/ env.kind = "stdout" /\ env.json = None
    \/ env.kind = "bytes" /\ ~StartsWith(fs[resolved[1]].data, PNG_SIG)

\* C10: when get_file_meta returns a FileMetadata with error set, no other
\* field is populated (width, height, workflow, prompt, duration, fps,
\* video_codec and comment unset, raw_text_chunks empty); error is set only on
\* a failure path; raw_text_chunks is always a mapping from text to text.
C10_ErrorExcludesFields ==
    (MetaDone /\ result.kind = "meta") =>
        /\ result.error # None =>
              /\ result.width = None /\ result.height = None
              /\ result.workflow = None /\ result.prompt = None
              /\ result.duration = None /\ result.fps = None
              /\ result.video_codec = None /\ result.comment = None
              /\ DOMAIN result.raw_text_chunks = {}
        /\ result.error # None => MetaFailure
        /\ \A k \in DOMAIN result.raw_text_chunks :
              k \in Seq(Nat) /\ result.raw_text_chunks[k] \in Seq(Nat)

\* the error of a bad signature on a file whose chunks are intact
C10_Witness ==
    /\ MetaDone
    /\ result.kind = "meta"
    /\ result.error = Some("Not a valid PNG file")
    /\ Len(fs[resolved[1]].data) > 20

(***************************************************************************)
(* The PNG decoder on its own: _parse_png over a family of buffers         *)
(***************************************************************************)
\* the most chunks a buffer of the family is built from
MaxChunks == 3

\* the signature with CR LF turned into LF LF
PngSigMangled == <<137, 80, 78, 71, 10, 10, 26, 10>>

\* a zlib stream whose checksum is wrong
BadStream == <<120, 156>> \o TxtX1 \o <<0>>

\* an iTXt chunk cut after its language tag: keyword, NUL, flag, method,
\* "en", and no NUL to end the tag
ChunkiTXtNoLangNul == Chunk(TypeiTXt, KeyPromptCap \o <<0, 0, 0, 101, 110>>)

\* the chunks the buffers are built from
ChunkPool ==
    { ChunkIHDR(2, 3),
      ChunktEXt(KeyWorkflow, TxtNodes),
      ChunktEXt(KeyWorkflow, TxtBad),
      ChunktEXt(KeyWorkflowCap, TxtX1),
      ChunkzTXt(KeyPrompt, Compress(TxtX1)),
      ChunkzTXt(KeyPrompt, BadStream),
      ChunkiTXt(KeyPromptCap, 0, TxtNodes),
      ChunkIEND,
      ChunkIHDR(4, 1),
      ChunktEXt(KeyPrompt, TxtBad),
      ChunkiTXtNoLangNul }

\* what a buffer may end with after its chunks: nothing, three bytes of a
\* chunk header, or a tEXt chunk cut inside its payload
TailCutBody == SubSeq(ChunktEXt(KeyPrompt, TxtX1), 1, 18)
Tails == { <<>>, <<0, 0, 0>>, TailCutBody }

RECURSIVE Flatten(_)
Flatten(chunks) == IF chunks = <<>> THEN <<>> ELSE Head(chunks) \o Flatten(Tail(chunks))

\* the buffers: signed ones with any chunks and tail, mangled ones with at
\* most one chunk, and two buffers shorter than a signature
PngBuffers ==
    { PNG_SIG \o Flatten(cs) \o t : cs \in SeqsUpTo(ChunkPool, MaxChunks), t \in Tails }
    \cup { PngSigMangled \o Flatten(cs) \o ChunkIEND : cs \in SeqsUpTo(ChunkPool, 1) }
    \cup { <<>>, SubSeq(PNG_SIG, 1, 5) }

InitPng ==
    /\ fs \in { TreeOf({ <<<<NameR, NameAPng>>, b>> }) : b \in PngBuffers }
    /\ pc = "idle"
    /\ op = "none"
    /\ arg = <<>>
    /\ result = NoResult
    /\ env = NoEnv
    /\ resolved = None
    /\ child = NoChild
    /\ calls = <<>>
    /\ bufs = <<>>
    /\ ShutIdle

\* _parse_png(path) on a file of the tree
ParsePng ==
    /\ pc = "idle"
    /\ \E p \in { q \in DOMAIN fs : IsFile(q) } : \E e \in ReadOutcomes :
          /\ resolved' = Some(p)
          /\ env' = e
          /\ result' = _parse_png(IF e.kind = "oserror" THEN e
                                  ELSE [kind |-> "bytes", data |-> fs[p].data])
    /\ pc' = "done"
    /\ op' = "_parse_png"
    /\ arg' = <<>>
    /\ UNCHANGED <<fs, aux>>

NextPng ==
    \/ ParsePng
    \/ Return

SpecPng == InitPng /\ [][NextPng]_vars

(***************************************************************************)
(* Properties of the PNG decoder (under SpecPng)                           *)
(***************************************************************************)
\* a decode that read its file
PngDone == pc = "done" /\ op = "_parse_png" /\ env.kind = "bytes"

\* the bytes decoded
Buf == fs[resolved[1]].data

\* the chunk frames of a buffer from a 0-based offset, up to and including
\* the first IEND: where each starts, its type, its payload as far as the
\* buffer holds it, and where the next one starts
RECURSIVE Frames(_, _)
Frames(data, offset) ==
    IF offset + 8 > Len(data) THEN <<>>
    ELSE LET length == UnpackU32(SubSeq(data, offset + 1, offset + 4))
             f == [at |-> offset,
                   type |-> SubSeq(data, offset + 5, offset + 8),
                   payload |-> Slice(data, offset + 8, offset + 8 + length),
                   next |-> offset + 12 + length]
         IN  IF f.type = TypeIEND THEN <<f>> ELSE <<f>> \o Frames(data, f.next)

\* where the walk over the frames stops, for a walk IEND did not end
StopOffset(data) ==
    LET fr == Frames(data, 8)
    IN  IF fr = <<>> THEN 8 ELSE fr[Len(fr)].next

EndsOnIEND(data) ==
    LET fr == Frames(data, 8)
    IN  fr # <<>> /\ fr[Len(fr)].type = TypeIEND

\* the walk stops at a chunk header the buffer no longer holds whole
ShortHeader(data) == StartsWith(data, PNG_SIG) /\ ~EndsOnIEND(data)

\* the result that holds the signature error and nothing else
NotPngResult == [FileMetadata EXCEPT !.error = Some("Not a valid PNG file")]

\* the key a text frame's payload starts with: the bytes before the first NUL
FrameKey(f) == Slice(f.payload, 0, FindNul(f.payload))

IsTextFrame(f) == f.type \in {TypetEXt, TypezTXt, TypeiTXt} /\ FindNul(f.payload) # -1

\* C11: a PNG decode of a buffer that does not start with the 8-byte PNG
\* signature ends with error 'Not a valid PNG file' and reads no chunk: the
\* result holds no dimensions, no text payload, no workflow and no prompt.
C11_BadSignatureIsError ==
    (PngDone /\ ~StartsWith(Buf, PNG_SIG)) => result = NotPngResult

\* a mangled signature in front of intact IHDR and IEND chunks
C11_Witness ==
    /\ PngDone
    /\ Len(Buf) >= 8
    /\ ~StartsWith(Buf, PNG_SIG)
    /\ \E i \in 1..Len(Frames(Buf, 8)) : Frames(Buf, 8)[i].type = TypeIHDR
    /\ result.error = Some("Not a valid PNG file")

\* C12 as stated: whenever fewer than 8 bytes remain, at the signature check
\* or at a chunk-header read, the decode returns with no error set.
C12_ShortReadNeverFails ==
    (PngDone /\ (Len(Buf) < 8 \/ ShortHeader(Buf))) => result.error = None

\* C12, amended: a buffer shorter than the signature ends in the error 'Not a
\* valid PNG file'; in a signed buffer, fewer than 8 bytes left at a
\* chunk-header read stop the decode with no error set, and the result is
\* what was accumulated: the dimensions of an IHDR chunk read, the text of
\* every tEXt chunk read, and all in all the result of decoding the buffer
\* cut where the read stopped.
C12_ShortHeaderKeepsAccumulated ==
    PngDone =>
        /\ Len(Buf) < 8 => result = NotPngResult
        /\ ShortHeader(Buf) =>
              LET fr == Frames(Buf, 8)
                  stop == IF StopOffset(Buf) < Len(Buf) THEN StopOffset(Buf) ELSE Len(Buf)
              IN  /\ result.error = None
                  /\ \A i \in 1..Len(fr) :
                        /\ (fr[i].type = TypeIHDR /\ Len(fr[i].payload) >= 8)
                              => (result.width # None /\ result.height # None)
                        /\ (fr[i].type = TypetEXt /\ IsTextFrame(fr[i]))
                              => FrameKey(fr[i]) \in DOMAIN result.raw_text_chunks
                  /\ result = _parse_png([kind |-> "bytes", data |-> SubSeq(Buf, 1, stop)])

\* an IHDR chunk and a text chunk, then three bytes of a header
C12_Witness ==
    /\ PngDone
    /\ ShortHeader(Buf)
    /\ StopOffset(Buf) < Len(Buf)
    /\ result.width = Some(2)
    /\ DOMAIN result.raw_text_chunks # {}
    /\ result.error = None

\* a zTXt frame with a key and a payload that fails to decompress
BadzTXt(f) ==
    /\ f.type = TypezTXt
    /\ IsTextFrame(f)
    /\ Len(f.payload) > FindNul(f.payload) + 2
    /\ Decompress(SliceFrom(f.payload, FindNul(f.payload) + 2)) = None

\* the buffer without the bytes of one frame
WithoutFrame(data, f) ==
    SubSeq(data, 1, f.at) \o SubSeq(data, f.next + 1, Len(data))

\* C13: a zTXt chunk whose compressed payload fails to decompress sets no
\* error and does not stop the chunk loop: the result is the one of the
\* buffer without that chunk, so the chunks after it are decoded; and its key
\* is absent from raw_text_chunks unless another text chunk carries the key.
C13_BadzTXtIsSkipped ==
    (PngDone /\ StartsWith(Buf, PNG_SIG)) =>
        LET fr == Frames(Buf, 8)
        IN  \A i \in 1..Len(fr) :
               BadzTXt(fr[i]) =>
                  /\ result.error = None
                  /\ result = _parse_png([kind |-> "bytes", data |-> WithoutFrame(Buf, fr[i])])
                  /\ (\A j \in (1..Len(fr)) \ {i} :
                         ~(IsTextFrame(fr[j]) /\ FrameKey(fr[j]) = FrameKey(fr[i])))
                        => FrameKey(fr[i]) \notin DOMAIN result.raw_text_chunks

\* a broken zTXt prompt, then a tEXt workflow that is decoded
C13_Witness ==
    /\ PngDone
    /\ StartsWith(Buf, PNG_SIG)
    /\ \E i, j \in 1..Len(Frames(Buf, 8)) :
          /\ i < j
          /\ BadzTXt(Frames(Buf, 8)[i])
          /\ Frames(Buf, 8)[j].type = TypetEXt
    /\ KeyPrompt \notin DOMAIN result.raw_text_chunks
    /\ KeyWorkflow \in DOMAIN result.raw_text_chunks
    /\ result.workflow = Some(ValNodes)

\* a decode that went through the chunk loop
PngLifted == PngDone /\ StartsWith(Buf, PNG_SIG)

\* the text json.loads accepts
Parses(text) == text \in DOMAIN JsonTable

\* C14 as stated: if raw_text_chunks holds a key workflow or Workflow whose
\* value parses as JSON, workflow is that parsed value (and the same for
\* prompt with prompt or Prompt).
C14_LiftAnyParsedKey ==
    PngLifted =>
        LET raw == result.raw_text_chunks
            ok(field, keys) ==
                (\E k \in keys : k \in DOMAIN raw /\ Parses(raw[k]))
                    => \E k \in keys : /\ k \in DOMAIN raw /\ Parses(raw[k])
                                       /\ field = Some(JsonTable[raw[k]])
        IN  /\ ok(result.workflow, {KeyWorkflow, KeyWorkflowCap})
            /\ ok(result.prompt, {KeyPrompt, KeyPromptCap})

\* C14, amended: of the keys workflow and Workflow the first one present in
\* raw_text_chunks decides: when its value parses as JSON, workflow is the
\* parsed value; when it does not, or when neither key is present, workflow
\* is unset, whatever the other key holds (the same for prompt with prompt
\* and Prompt). A failed parse sets no error, and the text of the last chunk
\* decoded for a key is in raw_text_chunks whether it parses or not.
C14_LiftFirstKeyPresent ==
    PngLifted =>
        LET raw == result.raw_text_chunks
            fr == Frames(Buf, 8)
            ok(field, first, second) ==
                LET k == IF first \in DOMAIN raw THEN first ELSE second
                IN  IF k \in DOMAIN raw /\ Parses(raw[k])
                    THEN field = Some(JsonTable[raw[k]])
                    ELSE field = None
        IN  /\ ok(result.workflow, KeyWorkflow, KeyWorkflowCap)
            /\ ok(result.prompt, KeyPrompt, KeyPromptCap)
            /\ result.error = None
            /\ \A i \in 1..Len(fr) :
                  (/\ fr[i].type = TypetEXt
                   /\ IsTextFrame(fr[i])
                   /\ \A j \in (i + 1)..Len(fr) :
                         ~(IsTextFrame(fr[j]) /\ FrameKey(fr[j]) = FrameKey(fr[i])))
                  => raw[FrameKey(fr[i])] = SliceFrom(fr[i].payload, FindNul(fr[i].payload) + 1)

\* a workflow text that does not parse: kept as raw text, workflow unset,
\* beside a prompt that was lifted
C14_Witness ==
    /\ PngLifted
    /\ KeyWorkflow \in DOMAIN result.raw_text_chunks
    /\ result.raw_text_chunks[KeyWorkflow] = TxtBad
    /\ result.workflow = None
    /\ result.prompt = Some(ValX1)
    /\ result.error = None

(***************************************************************************)
(* The video parser on its own: _parse_video with its ffprobe child        *)
(***************************************************************************)
\* subprocess.run(..., timeout=15), in seconds
PROBE_TIMEOUT == 15

\* a timer that never expires
TimerNever(elapsed) == FALSE

\* the timeout of subprocess.run has expired
TimerExpired(elapsed) == elapsed >= PROBE_TIMEOUT

\* the values a container tag may hold, None for a tag that is absent
CommentTexts ==
    { None, Some(TxtNodes), Some(TxtX1), Some(TxtBad), Some(TxtPW), Some(TxtNodesP),
      Some(TxtNodesPStr), Some(TxtPWStr), Some(TxtPStr), Some(TxtList) }
CommentCapTexts == { None, Some(TxtNodes) }
WorkflowTexts == { None, Some(TxtNodes), Some(TxtX1), Some(TxtBad) }
WorkflowCapTexts == { None, Some(TxtNodes) }
PromptTexts == { None, Some(TxtX1), Some(TxtBad), Some(TxtList), Some(<<>>) }
PromptCapTexts == { None, Some(TxtX1) }

\* the tags object of ffprobe's format section
MkTags(c, cc, w, wc, p, pp) ==
    LET all == [comment |-> c, Comment |-> cc, workflow |-> w, Workflow |-> wc,
                prompt |-> p, Prompt |-> pp]
        present == { k \in DOMAIN all : all[k] # None }
    IN  JDict([k \in present |-> JStr(all[k][1])])

TagDocs ==
    { JDict([format |-> JDict([tags |-> MkTags(c, cc, w, wc, p, pp)])]) :
        c \in CommentTexts, cc \in CommentCapTexts, w \in WorkflowTexts,
        wc \in WorkflowCapTexts, p \in PromptTexts, pp \in PromptCapTexts }

\* documents whose tags are spelled in another casing than the three the
\* parser looks up
MixedCaseDocs ==
    { JDict([format |-> JDict([tags |-> JDict([cOmment |-> JStr(TxtNodes)])])]),
      JDict([format |-> JDict([tags |-> JDict([WorkFlow |-> JStr(TxtNodes)])])]),
      JDict([format |-> JDict([tags |-> JDict([pRompt |-> JStr(TxtX1)])])]) }

Rate30 == <<51, 48, 47, 49>>                                  \* "30/1"
Rate25 == <<50, 53, 47, 49>>                                  \* "25/1"
RateNtsc == <<51, 48, 48, 48, 48, 47, 49, 48, 48, 49>>        \* "30000/1001"
RateZeroDen == <<51, 48, 47, 48>>                             \* "30/0"
RateBadNum == <<97, 47, 49>>                                  \* "a/1"
RateBadDen == <<51, 48, 47, 120>>                             \* "30/x"
RateNoSlash == <<51, 48>>                                     \* "30"

\* a video stream with the given r_frame_rate and avg_frame_rate, None for a
\* field that is absent
MkStream(r, a) ==
    LET all == [r_frame_rate |-> r, avg_frame_rate |-> a]
        present == { k \in DOMAIN all : all[k] # None }
    IN  JDict([k \in present \cup {"codec_type"} |->
                 IF k = "codec_type" THEN JStr(TxtVideo) ELSE JStr(all[k][1])])

StreamPool ==
    { MkStream(r, None) :
        r \in { None, Some(<<>>), Some(Rate30), Some(RateNtsc), Some(RateZeroDen),
                Some(RateBadNum), Some(RateBadDen), Some(RateNoSlash) } }
    \cup { MkStream(None, Some(Rate25)), MkStream(Some(<<>>), Some(Rate25)),
           MkStream(Some(RateZeroDen), Some(Rate25)), StreamAudio }

\* how many streams a document of the frame-rate cases holds at most
MaxStreams == 2

FpsDocs == { JDict([streams |-> JList(ss)]) : ss \in SeqsUpTo(StreamPool, MaxStreams) }

\* what ffprobe may leave on stdout when it exits: text json.loads rejects,
\* or a document
StdoutOutcomes ==
    { [kind |-> "stdout", json |-> None] }
    \cup { [kind |-> "stdout", json |-> Some(d)] : d \in ProbeDocs \cup TagDocs \cup MixedCaseDocs \cup FpsDocs }

VideoPath == <<NameR, NameSub, NameVMp4>>

InitVideo ==
    /\ fs = TreeOf({ <<VideoPath, DataVideo>> })
    /\ pc = "idle"
    /\ op = "none"
    /\ arg = <<>>
    /\ result = NoResult
    /\ env = NoEnv
    /\ resolved = None
    /\ child = NoChild
    /\ calls = <<>>
    /\ bufs = <<>>
    /\ ShutIdle

\* subprocess.run starts the child and waits for it
StartProbe ==
    /\ pc = "idle"
    /\ pc' = "probing"
    /\ op' = "_parse_video"
    /\ resolved' = Some(VideoPath)
    /\ child' = [spawned |-> 1, elapsed |-> 0, alive |-> TRUE]
    /\ UNCHANGED <<fs, arg, result, env, calls, bufs, shut>>

\* subprocess.run raises before any child runs: ffprobe is not installed, or
\* the start fails otherwise
ProbeSpawnFails ==
    /\ pc = "idle"
    /\ \E k \in {"FileNotFoundError", "OSError"} :
          /\ env' = [kind |-> k, json |-> None]
          /\ result' = _parse_video([kind |-> k, json |-> None])
    /\ pc' = "done"
    /\ op' = "_parse_video"
    /\ resolved' = Some(VideoPath)
    /\ child' = [spawned |-> 1, elapsed |-> 0, alive |-> FALSE]
    /\ UNCHANGED <<fs, arg, calls, bufs, shut>>

\* a second passes while the caller waits for the child
Tick ==
    /\ pc = "probing"
    /\ ~TimerExpired(child.elapsed)
    /\ child.elapsed < PROBE_TIMEOUT
    /\ child' = [child EXCEPT !.elapsed = @ + 1]
    /\ UNCHANGED <<fs, pc, op, arg, result, env, resolved, calls, bufs, shut>>

\* the child exits in time; the parser goes on with its stdout
ProbeExits ==
    /\ pc = "probing"
    /\ ~TimerExpired(child.elapsed)
    /\ \E out \in StdoutOutcomes :
          /\ env' = out
          /\ result' = _parse_video(out)
    /\ pc' = "done"
    /\ child' = [child EXCEPT !.alive = FALSE]
    /\ UNCHANGED <<fs, op, arg, resolved, calls, bufs, shut>>

\* the timeout expires: subprocess.run kills the child and raises
\* TimeoutExpired
ProbeTimesOut ==
    /\ pc = "probing"
    /\ TimerExpired(child.elapsed)
    /\ env' = [kind |-> "TimeoutExpired", json |-> None]
    /\ result' = _parse_video([kind |-> "TimeoutExpired", json |-> None])
    /\ pc' = "done"
    /\ child' = [child EXCEPT !.alive = FALSE]
    /\ UNCHANGED <<fs, op, arg, resolved, calls, bufs, shut>>

NextVideo ==
    \/ StartProbe
    \/ ProbeSpawnFails
    \/ Tick
    \/ ProbeExits
    \/ ProbeTimesOut
    \/ Return

\* time passes, and the timeout of subprocess.run fires once it has expired;
\* nothing makes the child exit
SpecVideo ==
    InitVideo /\ [][NextVideo]_vars /\ WF_vars(Tick) /\ WF_vars(ProbeTimesOut)

(***************************************************************************)
(* Properties of the video parser (under SpecVideo)                        *)
(***************************************************************************)
\* a call that got a document from ffprobe and returned metadata
VideoMerged ==
    /\ pc = "done" /\ op = "_parse_video"
    /\ env.kind = "stdout" /\ env.json # None
    /\ result.kind = "meta"

\* the tags object of the document, empty when the document has none
TagsOfDoc ==
    LET doc == Val(env.json[1])
        fmt == IF "format" \in DOMAIN doc THEN Val(doc["format"]) ELSE <<>>
    IN  IF "tags" \in DOMAIN fmt THEN Val(fmt["tags"]) ELSE <<>>

\* the text of the first spelling of a tag that is present and not empty
RECURSIVE TagText(_, _)
TagText(tags, spellings) ==
    IF spellings = <<>> THEN None
    ELSE IF Head(spellings) \in DOMAIN tags /\ Val(tags[Head(spellings)]) # <<>>
    THEN Some(Val(tags[Head(spellings)]))
    ELSE TagText(tags, Tail(spellings))

\* the JSON object a tag text parses to, None when it parses to none
ObjOf(text) ==
    IF text # None /\ Parses(text[1]) /\ TypeOf(JsonTable[text[1]]) = "dict"
    THEN Some(JsonTable[text[1]]) ELSE None

CommentObj == ObjOf(TagText(TagsOfDoc, <<"comment", "Comment", "COMMENT">>))
WorkflowTag == TagText(TagsOfDoc, <<"workflow", "Workflow", "WORKFLOW">>)
PromptTag == TagText(TagsOfDoc, <<"prompt", "Prompt", "PROMPT">>)

HasKey(obj, k) == k \in DOMAIN Val(obj)
HasObjAt(obj, k) == HasKey(obj, k) /\ TypeOf(Val(obj)[k]) = "dict"

\* what the standalone tags give a field the comment left unset
StandaloneWorkflowValue ==
    IF ObjOf(WorkflowTag) # None /\ HasKey(ObjOf(WorkflowTag)[1], "nodes")
    THEN ObjOf(WorkflowTag) ELSE None
StandalonePromptValue == ObjOf(PromptTag)

\* what the comment gives each field, None when it leaves the field unset
CommentWorkflow ==
    IF CommentObj = None THEN None
    ELSE IF HasKey(CommentObj[1], "nodes") THEN CommentObj
    ELSE IF HasKey(CommentObj[1], "prompt") /\ HasObjAt(CommentObj[1], "workflow")
    THEN Some(Val(CommentObj[1])["workflow"])
    ELSE None
CommentPrompt ==
    IF CommentObj = None THEN None
    ELSE IF HasKey(CommentObj[1], "nodes")
    THEN (IF HasObjAt(CommentObj[1], "prompt") THEN Some(Val(CommentObj[1])["prompt"])
          ELSE None)
    ELSE IF HasKey(CommentObj[1], "prompt") THEN Field(Val(CommentObj[1])["prompt"])
    ELSE CommentObj

\* C15 as stated: when the comment tag parses to a JSON object, (a) with a
\* nodes key the whole object is workflow and a nested prompt key, if present,
\* is lifted into prompt; (b) else with a prompt key that nested value is
\* prompt and a nested workflow key, if present, is lifted into workflow;
\* (c) else the whole object is prompt.  A nested value that is no object,
\* once lifted, is neither unset nor the object a standalone tag holds.
C15_CommentMergeLiftsNested ==
    (VideoMerged /\ CommentObj # None) =>
        LET obj == CommentObj[1]
        IN  IF HasKey(obj, "nodes")
            THEN /\ result.workflow = Some(obj)
                 /\ HasObjAt(obj, "prompt") => result.prompt = Some(Val(obj)["prompt"])
                 /\ (HasKey(obj, "prompt") /\ ~HasObjAt(obj, "prompt"))
                       => result.prompt \notin {None, StandalonePromptValue}
            ELSE IF HasKey(obj, "prompt")
            THEN /\ result.prompt = Field(Val(obj)["prompt"])
                 /\ HasObjAt(obj, "workflow") => result.workflow = Some(Val(obj)["workflow"])
                 /\ (HasKey(obj, "workflow") /\ ~HasObjAt(obj, "workflow"))
                       => result.workflow \notin {None, StandaloneWorkflowValue}
            ELSE result.prompt = Some(obj)

\* C15, amended: when the comment tag parses to a JSON object, (a) with a
\* nodes key the whole object is workflow, and a nested prompt key is lifted
\* into prompt if its value is a JSON object; (b) else with a prompt key that
\* nested value is prompt, and a nested workflow key is lifted into workflow
\* if its value is a JSON object; (c) else the whole object is prompt.  A
\* nested value that is no object is not lifted: the field is left to the
\* standalone tags.
C15_CommentMergeLiftsObjects ==
    (VideoMerged /\ CommentObj # None) =>
        LET obj == CommentObj[1]
        IN  IF HasKey(obj, "nodes")
            THEN /\ result.workflow = Some(obj)
                 /\ HasObjAt(obj, "prompt") => result.prompt = Some(Val(obj)["prompt"])
                 /\ ~HasObjAt(obj, "prompt") => result.prompt = StandalonePromptValue
            ELSE IF HasKey(obj, "prompt")
            THEN /\ result.prompt = Field(Val(obj)["prompt"])
                 /\ HasObjAt(obj, "workflow") => result.workflow = Some(Val(obj)["workflow"])
                 /\ ~HasObjAt(obj, "workflow") => result.workflow = StandaloneWorkflowValue
            ELSE result.prompt = Some(obj)

\* the comment {"prompt": {"x":1}, "workflow": {"nodes":[]}}
C15_Witness ==
    /\ VideoMerged
    /\ CommentObj = Some(ValPW)
    /\ result.prompt = Some(ValX1)
    /\ result.workflow = Some(ValNodes)

\* C16: the comment comes first and the standalone tags second, field by
\* field: a workflow or prompt the comment set is the result whatever the
\* standalone tags hold, and a field the comment left unset holds what its
\* standalone tag gives, whether or not the comment set the other field.
C16_CommentBeforeStandalone ==
    VideoMerged =>
        /\ CommentWorkflow # None => result.workflow = CommentWorkflow
        /\ CommentWorkflow = None => result.workflow = StandaloneWorkflowValue
        /\ CommentPrompt # None => result.prompt = CommentPrompt
        /\ CommentPrompt = None => result.prompt = StandalonePromptValue

\* the comment set workflow and left prompt unset; a standalone workflow
\* tag with another value is passed over, the standalone prompt tag is used
C16_Witness ==
    /\ VideoMerged
    /\ CommentWorkflow = Some(ValNodesPStr)
    /\ CommentPrompt = None
    /\ StandaloneWorkflowValue = Some(ValNodes)
    /\ StandalonePromptValue = Some(ValX1)
    /\ result.workflow = Some(ValNodesPStr)
    /\ result.prompt = Some(ValX1)

\* the spellings of a standalone tag that parse to a JSON object
ObjSpellings(spellings) ==
    { k \in spellings : k \in DOMAIN TagsOfDoc /\ ObjOf(Some(Val(TagsOfDoc[k]))) # None }

\* C17 as stated: for a field the comment left unset, a standalone workflow
\* tag is honored only if it parses to a JSON object with a nodes key, and a
\* standalone prompt tag is honored whenever it parses to a JSON object.
C17_StandaloneHonoredWhenever ==
    VideoMerged =>
        /\ (CommentWorkflow = None /\ result.workflow # None) =>
              \E k \in ObjSpellings({"workflow", "Workflow", "WORKFLOW"}) :
                 /\ HasKey(JsonTable[Val(TagsOfDoc[k])], "nodes")
                 /\ result.workflow = Some(JsonTable[Val(TagsOfDoc[k])])
        /\ (CommentPrompt = None /\ ObjSpellings({"prompt", "Prompt", "PROMPT"}) # {}) =>
              \E k \in ObjSpellings({"prompt", "Prompt", "PROMPT"}) :
                 result.prompt = Some(JsonTable[Val(TagsOfDoc[k])])

\* C17, amended: the standalone tag of a field is the first of its three
\* spellings (lower case, capitalised, upper case) that is present and not
\* empty; the other spellings are not looked at.  For a field the comment
\* left unset, the workflow tag is honored if and only if it parses to a JSON
\* object with a nodes key, and the prompt tag if and only if it parses to a
\* JSON object.
C17_StandaloneFirstSpelling ==
    VideoMerged =>
        /\ CommentWorkflow = None =>
              IF ObjOf(WorkflowTag) # None /\ HasKey(ObjOf(WorkflowTag)[1], "nodes")
              THEN result.workflow = ObjOf(WorkflowTag)
              ELSE result.workflow = None
        /\ CommentPrompt = None =>
              IF ObjOf(PromptTag) # None
              THEN result.prompt = ObjOf(PromptTag)
              ELSE result.prompt = None

\* no comment tag, a standalone workflow tag of {"x":1} and a standalone
\* prompt tag of {"x":1}: workflow unset, prompt set
C17_Witness ==
    /\ VideoMerged
    /\ TagText(TagsOfDoc, <<"comment", "Comment", "COMMENT">>) = None
    /\ WorkflowTag = Some(TxtX1)
    /\ PromptTag = Some(TxtX1)
    /\ result.workflow = None
    /\ result.prompt = Some(ValX1)

\* C20: every call to the video probe ends: a call waiting for ffprobe
\* leads to a call that is over; once the 15 seconds of the timeout have
\* passed the next thing the call does is end with error 'ffprobe timed out';
\* the wait never exceeds the timeout; and a call starts ffprobe once.
C20_ProbeEndsWithinTimeout ==
    /\ (pc = "probing") ~> (pc = "done")
    /\ [][(pc = "probing" /\ child.elapsed >= PROBE_TIMEOUT)
            => (pc' = "done" /\ result'.kind = "meta"
                /\ result'.error = Some("ffprobe timed out"))]_vars
    /\ [](child.elapsed <= PROBE_TIMEOUT /\ child.spawned <= 1)
    /\ [][child'.spawned > child.spawned => pc = "idle"]_vars

\* the timeout fired on a child that ran the full 15 seconds
C20_Witness ==
    /\ pc = "done" /\ op = "_parse_video"
    /\ child.spawned = 1
    /\ child.elapsed = PROBE_TIMEOUT
    /\ env.kind = "TimeoutExpired"
    /\ result.error = Some("ffprobe timed out")

(***************************************************************************)
(* Properties of get_preview (under Spec)                                  *)
(***************************************************************************)
\* a call to get_preview that ended
PreviewDone == pc = "done" /\ op = "get_preview"

\* C18: get_preview of an existing file inside the root whose extension,
\* lower-cased, is not in the preview allow-list raises PermissionError and
\* returns no bytes; a path that does not resolve to an existing file inside
\* the root raises FileNotFoundError, whatever its extension.
C18_PreviewNotFoundOrUnsupported ==
    PreviewDone =>
        IF InsideRoot(Canonical) /\ IsFile(Canonical)
        THEN (Lower(Suffix(Canonical)) \notin PREVIEW_EXTS) => result = Raise("PermissionError")
        ELSE result = Raise("FileNotFoundError")

(***************************************************************************)
(* Concurrent callers: the four operations interleaved on one root         *)
(***************************************************************************)
\* how many callers run at once
NumCallers == 2

Callers == 1..NumCallers

\* the paths the concurrent callers ask for
ConcPaths == { <<>>, <<NameSub>>, <<NameAPng>>, <<DotDot, NameRx>> }

\* one buffer for all callers
BufShared(c) == 1

\* the buffer a call to build_zip writes its archive to: its own, a local
\* of the call
BufOf(c) == c

IdleCall ==
    [pc |-> "idle", op |-> "none", arg |-> <<>>, env |-> NoEnv, todo |-> <<>>,
     result |-> NoResult]

InitConc ==
    /\ fs = TreeOf(InsideFiles)
    /\ pc = "idle"
    /\ op = "none"
    /\ arg = <<>>
    /\ result = NoResult
    /\ env = NoEnv
    /\ resolved = None
    /\ child = NoChild
    /\ calls = [c \in Callers |-> IdleCall]
    /\ bufs = [b \in { BufOf(c) : c \in Callers } |-> <<>>]
    /\ ShutIdle

single == <<pc, op, arg, result, env, resolved, child>>

\* a caller enters browse, get_preview or get_file_meta
CallStart ==
    /\ \E c \in Callers : \E p \in ConcPaths :
       \E o \in {"browse", "get_preview", "get_file_meta"} :
       \E e \in (IF o = "get_file_meta" THEN EnvChoices(p) ELSE {NoEnv}) :
          /\ calls[c].pc = "idle"
          /\ calls' = [calls EXCEPT ![c] =
                          [IdleCall EXCEPT !.pc = "running", !.op = o, !.arg = p, !.env = e]]
    /\ UNCHANGED <<fs, single, shut, bufs>>

\* the call reads the tree and returns
CallFinish ==
    /\ \E c \in Callers :
          /\ calls[c].pc = "running"
          /\ calls' = [calls EXCEPT ![c].pc = "done",
                                    ![c].result =
                                        IF calls[c].op = "browse" THEN browse(calls[c].arg)
                                        ELSE IF calls[c].op = "get_preview"
                                        THEN get_preview(calls[c].arg)
                                        ELSE get_file_meta(calls[c].arg, calls[c].env)]
    /\ UNCHANGED <<fs, single, shut, bufs>>

\* build_zip up to the start of its loop: the guard, the directory test, a
\* fresh buffer, and the sorted listing of the target
ZipOpen ==
    /\ \E c \in Callers : \E p \in ConcPaths :
          /\ calls[c].pc = "idle"
          /\ IF ZipResolved(p) = None \/ ~IsDir(ZipTarget(p))
             THEN /\ calls' = [calls EXCEPT ![c] =
                                  [IdleCall EXCEPT !.pc = "done", !.op = "build_zip",
                                                   !.arg = p, !.result = build_zip(p)]]
                  /\ UNCHANGED bufs
             ELSE /\ calls' = [calls EXCEPT ![c] =
                                  [IdleCall EXCEPT !.pc = "zipping", !.op = "build_zip",
                                                   !.arg = p,
                                                   !.todo = SortedPaths(Descendants(ZipTarget(p)))]]
                  /\ bufs' = [bufs EXCEPT ![BufOf(c)] = <<>>]
    /\ UNCHANGED <<fs, single, shut>>

\* one turn of the loop: the next path of the listing, written to the
\* buffer if it is a file with no leading dot
ZipWrite ==
    /\ \E c \in Callers :
          /\ calls[c].pc = "zipping"
          /\ calls[c].todo # <<>>
          /\ LET fp == Head(calls[c].todo)
                 target == ZipTarget(calls[c].arg)
             IN  bufs' = [bufs EXCEPT ![BufOf(c)] =
                            IF ZipIncludes(fp)
                            THEN Append(@, [name |-> JoinSlash(RelativeTo(fp, target)),
                                            data |-> fs[fp].data])
                            ELSE @]
          /\ calls' = [calls EXCEPT ![c].todo = Tail(@)]
    /\ UNCHANGED <<fs, single, shut>>

\* the loop is over: the buffer is read and returned with the filename
ZipClose ==
    /\ \E c \in Callers :
          /\ calls[c].pc = "zipping"
          /\ calls[c].todo = <<>>
          /\ calls' = [calls EXCEPT ![c].pc = "done",
                                    ![c].result =
                                        [kind |-> "zip",
                                         archive |-> bufs[BufOf(c)],
                                         filename |-> ZipFilename(ZipTarget(calls[c].arg))]]
          /\ bufs' = [bufs EXCEPT ![BufOf(c)] = <<>>]
    /\ UNCHANGED <<fs, single, shut>>

\* the response is handed back
CallReturn ==
    /\ \E c \in Callers :
          /\ calls[c].pc = "done"
          /\ calls' = [calls EXCEPT ![c] = IdleCall]
    /\ UNCHANGED <<fs, single, shut, bufs>>

NextConc ==
    \/ CallStart
    \/ CallFinish
    \/ ZipOpen
    \/ ZipWrite
    \/ ZipClose
    \/ CallReturn

SpecConc == InitConc /\ [][NextConc]_vars

(***************************************************************************)
(* Properties of concurrent callers (under SpecConc)                       *)
(***************************************************************************)
\* what a call returns when it runs alone, all at once
Alone(call) ==
    IF call.op = "browse" THEN browse(call.arg)
    ELSE IF call.op = "get_preview" THEN get_preview(call.arg)
    ELSE IF call.op = "build_zip" THEN build_zip(call.arg)
    ELSE get_file_meta(call.arg, call.env)

Visited == Frames(Buf, 8)

\* the IHDR frames visited that hold both dimensions
IHDRFrames == { i \in 1..Len(Visited) :
                  Visited[i].type = TypeIHDR /\ Len(Visited[i].payload) >= 8 }

\* C21: only the first IHDR chunk is honored: after PNG decode, width and
\* height are those of the first IHDR chunk of the stream, and a later IHDR
\* chunk leaves them unchanged.
C21_FirstIHDRWins ==
    (PngLifted /\ IHDRFrames # {}) =>
        LET first == CHOOSE i \in IHDRFrames : \A j \in IHDRFrames : i <= j
        IN  /\ result.width = Some(UnpackU32(SubSeq(Visited[first].payload, 1, 4)))
            /\ result.height = Some(UnpackU32(SubSeq(Visited[first].payload, 5, 8)))

\* the fields of an iTXt payload as the format lays them out: keyword, NUL,
\* compression flag, compression method, language tag, NUL, translated
\* keyword, NUL, text
iTXtWellFormed(payload) ==
    LET nul == FindNul(payload)
        afterMethod == SliceFrom(payload, nul + 3)
        nul2 == FindNul(afterMethod)
        afterLang == SliceFrom(afterMethod, nul2 + 1)
        nul3 == FindNul(afterLang)
        text == SliceFrom(afterLang, nul3 + 1)
    IN  /\ nul # -1
        /\ Len(payload) >= nul + 3
        /\ nul2 # -1
        /\ nul3 # -1
        /\ payload[nul + 2] # 0 => Decompress(text) # None

\* the buffer decodes to the same result with and without a frame
SkippedFrame(f) ==
    result = _parse_png([kind |-> "bytes", data |-> WithoutFrame(Buf, f)])

\* C22: an iTXt chunk with a malformed field (no NUL after the keyword, no
\* flag and method bytes, no NUL ending the language tag or the translated
\* keyword, or a value that fails to decompress when the flag is set) is
\* skipped: the decode sets no error and gives what it gives without the
\* chunk, so the chunk adds no entry to raw_text_chunks.
C22_MalformediTXtIsSkipped ==
    PngLifted =>
        \A i \in 1..Len(Visited) :
           (Visited[i].type = TypeiTXt /\ ~iTXtWellFormed(Visited[i].payload))
              => (result.error = None /\ SkippedFrame(Visited[i]))

\* the entry one text frame stores, decoded alone: a mapping of one key, or
\* the empty mapping for a frame that stores nothing
FrameEntry(f) ==
    IF f.type = TypetEXt THEN ParsetEXt(FileMetadata, f.payload).raw_text_chunks
    ELSE IF f.type = TypezTXt THEN ParsezTXt(FileMetadata, f.payload).raw_text_chunks
    ELSE IF f.type = TypeiTXt THEN ParseiTXt(FileMetadata, f.payload).raw_text_chunks
    ELSE <<>>

\* the frames visited that store a value for key k
Writers(k) == { i \in 1..Len(Visited) : k \in DOMAIN FrameEntry(Visited[i]) }

\* C23: the three kinds of text chunk fill one mapping, the last writer
\* winning: the keys of raw_text_chunks are the keys of the text chunks
\* decoded before IEND, and the value of each key is the one of the last
\* such chunk with that key, whatever its kind.
C23_LastWriterWins ==
    PngLifted =>
        /\ \A i \in 1..Len(Visited) :
              DOMAIN FrameEntry(Visited[i]) \subseteq DOMAIN result.raw_text_chunks
        /\ \A k \in DOMAIN result.raw_text_chunks :
              /\ Writers(k) # {}
              /\ LET last == CHOOSE i \in Writers(k) : \A j \in Writers(k) : j <= i
                 IN  result.raw_text_chunks[k] = FrameEntry(Visited[last])[k]

\* a tEXt prompt that does not parse, overwritten by a later zTXt prompt
C23_Witness ==
    /\ PngLifted
    /\ \E i, j \in Writers(KeyPrompt) :
          /\ i < j
          /\ Visited[i].type = TypetEXt
          /\ Visited[j].type = TypezTXt
          /\ FrameEntry(Visited[i])[KeyPrompt] = TxtBad
    /\ result.raw_text_chunks[KeyPrompt] = TxtX1
    /\ result.prompt = Some(ValX1)

\* the bytes of the whole buffer that follow the header of its first IEND
AfterIEND(data) ==
    LET fr == Frames(data, 8)
    IN  IF EndsOnIEND(data) THEN SliceFrom(data, fr[Len(fr)].at + 8) ELSE <<>>

\* C24: the chunk loop stops at the first IEND chunk: IEND stores no text, no
\* key of raw_text_chunks comes from anywhere but a text chunk before it, and
\* the result is the one of the buffer cut after the header of IEND, so no
\* chunk located after it changes width, height or raw_text_chunks.
C24_LoopStopsAtIEND ==
    (PngLifted /\ EndsOnIEND(Buf)) =>
        LET iend == Visited[Len(Visited)]
        IN  /\ FrameEntry(iend) = <<>>
            /\ \A k \in DOMAIN result.raw_text_chunks :
                  \E i \in 1..(Len(Visited) - 1) : k \in DOMAIN FrameEntry(Visited[i])
            /\ IHDRFrames = {} => (result.width = None /\ result.height = None)
            /\ result = _parse_png([kind |-> "bytes", data |-> SubSeq(Buf, 1, iend.at + 8)])

\* IEND first, then an IHDR chunk and a text chunk that are not decoded
C24_Witness ==
    /\ PngLifted
    /\ EndsOnIEND(Buf)
    /\ Len(Visited) = 1
    /\ \E i, j \in 1..Len(Frames(AfterIEND(Buf), 4)) :
          /\ Frames(AfterIEND(Buf), 4)[i].type = TypeIHDR
          /\ Frames(AfterIEND(Buf), 4)[j].type = TypetEXt
    /\ result.width = None
    /\ DOMAIN result.raw_text_chunks = {}

(***************************************************************************)
(* More properties of the video parser (under SpecVideo)                   *)
(***************************************************************************)
\* the lower-case form of the tag names of the documents
LowerOf ==
    [comment |-> "comment", Comment |-> "comment", cOmment |-> "comment",
     workflow |-> "workflow", Workflow |-> "workflow", WorkFlow |-> "workflow",
     prompt |-> "prompt", Prompt |-> "prompt", pRompt |-> "prompt"]

\* the tags of the document whose name is n under some casing
TagsNamed(n) == { k \in DOMAIN TagsOfDoc : LowerOf[k] = n }

\* C25: container tags are matched without regard to casing: a tag named
\* comment under any casing, when it is the only one and holds text, is the
\* comment of the result; a tag named workflow (prompt) under any casing,
\* when it is the only one, holds a workflow object (an object) and no
\* comment tag is there, is the workflow (the prompt) of the result.
C25_TagsMatchAnyCasing ==
    VideoMerged =>
        /\ \A k \in TagsNamed("comment") :
              (TagsNamed("comment") = {k} /\ Val(TagsOfDoc[k]) # <<>>)
                 => result.comment = Some(Val(TagsOfDoc[k]))
        /\ \A k \in TagsNamed("workflow") :
              (/\ TagsNamed("workflow") = {k} /\ TagsNamed("comment") = {}
               /\ ObjOf(Some(Val(TagsOfDoc[k]))) # None
               /\ HasKey(ObjOf(Some(Val(TagsOfDoc[k])))[1], "nodes"))
                 => result.workflow = ObjOf(Some(Val(TagsOfDoc[k])))
        /\ \A k \in TagsNamed("prompt") :
              (/\ TagsNamed("prompt") = {k} /\ TagsNamed("comment") = {}
               /\ ObjOf(Some(Val(TagsOfDoc[k]))) # None)
                 => result.prompt = ObjOf(Some(Val(TagsOfDoc[k])))

\* the frame rates of the documents, in thousandths
FpsTable == (Rate30 :> 30000) @@ (Rate25 :> 25000) @@ (RateNtsc :> 29970)

\* a call that got from ffprobe a document whose streams are a list of
\* objects with frame-rate fields that are text or absent, and no format
\* section
FpsCase ==
    /\ pc = "done" /\ op = "_parse_video"
    /\ env.kind = "stdout" /\ env.json # None
    /\ TypeOf(env.json[1]) = "dict"
    /\ DOMAIN Val(env.json[1]) = {"streams"}
    /\ TypeOf(Val(env.json[1])["streams"]) = "list"
    /\ \A i \in 1..Len(Val(Val(env.json[1])["streams"])) :
          LET st == Val(Val(env.json[1])["streams"])[i]
          IN  /\ TypeOf(st) = "dict"
              /\ \A k \in {"r_frame_rate", "avg_frame_rate"} \cap DOMAIN Val(st) :
                    TypeOf(Val(st)[k]) = "str"

DocStreams == Val(Val(env.json[1])["streams"])

VideoStreams ==
    { i \in 1..Len(DocStreams) :
        /\ "codec_type" \in DOMAIN Val(DocStreams[i])
        /\ Val(DocStreams[i])["codec_type"] = JStr(TxtVideo) }

\* the rational text of a stream: r_frame_rate, or avg_frame_rate when
\* r_frame_rate is absent or empty, or the empty text
RateText(st) ==
    IF "r_frame_rate" \in DOMAIN Val(st) /\ Val(Val(st)["r_frame_rate"]) # <<>>
    THEN Val(Val(st)["r_frame_rate"])
    ELSE IF "avg_frame_rate" \in DOMAIN Val(st) THEN Val(Val(st)["avg_frame_rate"])
    ELSE <<>>

\* C26: the frame rate is taken from the first stream of type video only;
\* when its rational text has a zero denominator, is not numeric or is
\* missing, fps is left unset; no error is raised or recorded.
C26_FpsFromFirstVideoStream ==
    FpsCase =>
        /\ result.kind = "meta"
        /\ result.error = None
        /\ VideoStreams = {} => result.fps = None
        /\ VideoStreams # {} =>
              LET first == CHOOSE i \in VideoStreams : \A j \in VideoStreams : i <= j
                  rate == RateText(DocStreams[first])
              IN  result.fps = IF rate \in DOMAIN FpsTable THEN Some(FpsTable[rate])
                               ELSE None

\* a first video stream with a zero denominator before one with a good rate
C26_Witness ==
    /\ FpsCase
    /\ Len(DocStreams) = 2
    /\ VideoStreams = {1, 2}
    /\ RateText(DocStreams[1]) = RateZeroDen
    /\ RateText(DocStreams[2]) = Rate30
    /\ result.kind = "meta"
    /\ result.fps = None

(***************************************************************************)
(* The download service: _normalise_mirrors                                *)
(***************************************************************************)
\* longest list of mirrors of a request
MaxMirrors == 3

UrlA == <<97>>                                    \* "a"
UrlB == <<98>>                                    \* "b"

\* the mirrors of an AddDownloadRequest: a url, and a priority that may be
\* left out
MirrorPool == [url : {UrlA, UrlB}, priority : {None, Some(1), Some(2)}]

\* while next_auto in explicit: next_auto += 1
RECURSIVE NextFree(_, _)
NextFree(n, explicit) == IF n \in explicit THEN NextFree(n + 1, explicit) ELSE n

\* the for loop of _normalise_mirrors
RECURSIVE NormaliseLoop(_, _, _, _)
NormaliseLoop(mirrors, explicit, next_auto, out) ==
    IF mirrors = <<>> THEN out
    ELSE LET m == Head(mirrors)
         IN  IF m.priority = None
             THEN LET free == NextFree(next_auto, explicit)
                  IN  NormaliseLoop(Tail(mirrors), explicit \cup {free}, free + 1,
                                    Append(out, [m EXCEPT !.priority = Some(free)]))
             ELSE NormaliseLoop(Tail(mirrors), explicit, next_auto, Append(out, m))

_normalise_mirrors(mirrors) ==
    LET explicit == { mirrors[i].priority[1] :
                        i \in { j \in 1..Len(mirrors) : mirrors[j].priority # None } }
    IN  [kind |-> "mirrors", list |-> NormaliseLoop(mirrors, explicit, 1, <<>>)]

InitMirrors ==
    /\ fs = TreeOf({})
    /\ pc = "idle"
    /\ op = "none"
    /\ arg = <<>>
    /\ result = NoResult
    /\ env = NoEnv
    /\ resolved = None
    /\ child = NoChild
    /\ calls = <<>>
    /\ bufs = <<>>
    /\ ShutIdle

\* add_download hands the mirrors of the request to _normalise_mirrors
NormaliseMirrors ==
    /\ pc = "idle"
    /\ \E mirrors \in SeqsUpTo(MirrorPool, MaxMirrors) :
          /\ arg' = mirrors
          /\ result' = _normalise_mirrors(mirrors)
    /\ pc' = "done"
    /\ op' = "_normalise_mirrors"
    /\ UNCHANGED <<fs, env, resolved, aux>>

NextMirrors ==
    \/ NormaliseMirrors
    \/ Return

SpecMirrors == InitMirrors /\ [][NextMirrors]_vars

MirrorsDone == pc = "done" /\ op = "_normalise_mirrors"

\* C27: _normalise_mirrors returns one mirror per input mirror, in input
\* order, every one with a priority and no two with the same priority, for
\* every input list, those where several mirrors carry the same explicit
\* priority included.
C27_PrioritiesAreUnique ==
    MirrorsDone =>
        /\ Len(result.list) = Len(arg)
        /\ \A i \in 1..Len(arg) :
              /\ result.list[i].url = arg[i].url
              /\ result.list[i].priority # None
        /\ \A i, j \in 1..Len(result.list) :
              i # j => result.list[i].priority # result.list[j].priority

(***************************************************************************)
(* The preset store: ConfigLoaderService                                   *)
(***************************************************************************)
\* longest config name, in segments
MaxNameSegs == 2

NameP == <<112>>                                  \* "p"
NamePx == <<112, 120>>                            \* "px"
NameC == <<99>>                                   \* "c"
ExtJson == <<46, 106, 115, 111, 110>>             \* ".json"
NameCJson == NameC \o ExtJson                     \* "c.json"
NamePxJson == NamePx \o ExtJson                   \* "px.json"

\* os.path.realpath(self.presets_path): "/p"
PresetsDir == <<NameP>>

\* what exists beside the presets directory: "/px.json", whose path has the
\* directory's path as a prefix, and "/c.json"
ConfigFixedTree ==
    (<<>> :> Dir) @@ (PresetsDir :> Dir)
    @@ (<<NamePxJson>> :> File(TxtX1)) @@ (<<NameCJson>> :> File(TxtX1))

\* the presets a directory may hold at the start
ConfigTrees ==
    { ConfigFixedTree } \cup
    { ConfigFixedTree @@ (<<NameP, NameCJson>> :> File(t)) : t \in {TxtX1, TxtBad, TxtList} }

\* a config name: the segments between its slashes, and whether it starts
\* with a slash
ConfigSegPool == {DotDot, NameP, NamePx, NameC, NameCJson}
ConfigNames == [abs : BOOLEAN, segs : SeqsUpTo(ConfigSegPool, MaxNameSegs)]

\* str.endswith
EndsWith(s, suffix) ==
    Len(suffix) <= Len(s) /\ SubSeq(s, Len(s) - Len(suffix) + 1, Len(s)) = suffix

\* the text of a name
NameStr(name) == (IF name.abs THEN <<Ch.slash>> ELSE <<>>) \o JoinSlash(name.segs)

\* config_name + ".json" unless the name ends with ".json" already
WithJson(name) ==
    IF name.segs = <<>> THEN [name EXCEPT !.segs = <<ExtJson>>]
    ELSE IF EndsWith(name.segs[Len(name.segs)], ExtJson) THEN name
    ELSE [name EXCEPT !.segs[Len(name.segs)] = @ \o ExtJson]

\* os.path.join(self.presets_path, config_name): an absolute name stands alone
JoinPresets(name) == IF name.abs THEN name.segs ELSE PresetsDir \o name.segs

\* a containment test by the directory's path alone, with no separator
ConfigGuardNoSep(real_path, real_dir) == StartsWith(PathStr(real_path), PathStr(real_dir))

\* real_path.startswith(real_dir + os.sep) or real_path == real_dir
ConfigGuardAccepts(real_path, real_dir) ==
    \/ StartsWith(PathStr(real_path), PathStr(real_dir) \o <<Ch.slash>>)
    \/ PathStr(real_path) = PathStr(real_dir)

\* _safe_filepath: the joined path, or None when it raises ValueError
_safe_filepath(config_name) ==
    LET filepath == JoinPresets(WithJson(config_name))
    IN  IF ConfigGuardAccepts(Resolve(filepath), PresetsDir) THEN Some(filepath) ELSE None

\* the node the operating system reaches along a path, every segment on the
\* way being looked up in a directory that exists; None when one does not
RECURSIVE OsWalk(_, _)
OsWalk(cur, rest) ==
    IF rest = <<>> THEN Some(cur)
    ELSE IF ~IsDir(cur) THEN None
    ELSE IF Head(rest) = DotDot
    THEN OsWalk(IF cur = <<>> THEN <<>> ELSE SubSeq(cur, 1, Len(cur) - 1), Tail(rest))
    ELSE OsWalk(Append(cur, Head(rest)), Tail(rest))

\* os.path.exists(filepath)
OsExists(filepath) == OsWalk(<<>>, filepath) # None /\ Exists(OsWalk(<<>>, filepath)[1])

\* json.dump(config_data, fh, indent=2) on the values the model saves
DumpTable == (ValX1 :> TxtX1Pretty)

\* config_name.removesuffix(".json")
CleanName(name) ==
    LET text == NameStr(name)
    IN  IF EndsWith(text, ExtJson) THEN SubSeq(text, 1, Len(text) - Len(ExtJson)) ELSE text

ConfigFailure(msg) ==
    [kind |-> "response", success |-> FALSE, error |-> Some(msg), config |-> None,
     config_name |-> None]
ConfigSuccess(config, name) ==
    [kind |-> "response", success |-> TRUE, error |-> None, config |-> config,
     config_name |-> name]

\* save_config: the response, and the filesystem it leaves
save_config(config_name, config_data) ==
    LET filepath == _safe_filepath(config_name)
        target == OsWalk(<<>>, filepath[1])
    IN  IF filepath = None
        THEN [response |-> ConfigFailure("Invalid config path"), fs |-> fs]
        ELSE IF target = None \/ IsDir(target[1])
        THEN [response |-> ConfigFailure("Error saving config"), fs |-> fs]
        ELSE [response |-> ConfigSuccess(None, Some(CleanName(config_name))),
              fs |-> (target[1] :> File(DumpTable[config_data])) @@ fs]

\* load_config
load_config(config_name) ==
    LET filepath == _safe_filepath(config_name)
        target == OsWalk(<<>>, filepath[1])
    IN  IF filepath = None THEN ConfigFailure("Invalid config path")
        ELSE IF ~OsExists(filepath[1]) THEN ConfigFailure("Config not found")
        ELSE IF IsDir(target[1]) THEN ConfigFailure("Error loading config")
        ELSE IF ~(fs[target[1]].data \in DOMAIN JsonTable)
        THEN ConfigFailure("Invalid JSON in config file")
        ELSE IF TypeOf(JsonTable[fs[target[1]].data]) # "dict"
        THEN ConfigFailure("ValidationError")
        ELSE ConfigSuccess(Some(JsonTable[fs[target[1]].data]), None)

\* delete_config: the response, and the filesystem it leaves
delete_config(config_name) ==
    LET filepath == _safe_filepath(config_name)
        target == OsWalk(<<>>, filepath[1])
    IN  IF filepath = None
        THEN [response |-> ConfigFailure("Invalid config path"), fs |-> fs]
        ELSE IF ~OsExists(filepath[1])
        THEN [response |-> ConfigFailure("Config not found"), fs |-> fs]
        ELSE IF IsDir(target[1])
        THEN [response |-> ConfigFailure("Error deleting config"), fs |-> fs]
        ELSE [response |-> ConfigSuccess(None, None),
              fs |-> [q \in (DOMAIN fs) \ {target[1]} |-> fs[q]]]

InitConfig ==
    /\ fs \in ConfigTrees
    /\ pc = "idle"
    /\ op = "none"
    /\ arg = <<>>
    /\ result = NoResult
    /\ env = NoEnv
    /\ resolved = None
    /\ child = NoChild
    /\ calls = <<>>
    /\ bufs = <<>>
    /\ ShutIdle

SaveConfig ==
    /\ pc = "idle"
    /\ \E name \in ConfigNames : \E data \in DOMAIN DumpTable :
          /\ arg' = name
          /\ resolved' = _safe_filepath(name)
          /\ result' = save_config(name, data).response
          /\ fs' = save_config(name, data).fs
    /\ pc' = "done"
    /\ op' = "save_config"
    /\ UNCHANGED <<env, aux>>

LoadConfig ==
    /\ pc = "idle"
    /\ \E name \in ConfigNames :
          /\ arg' = name
          /\ resolved' = _safe_filepath(name)
          /\ result' = load_config(name)
    /\ pc' = "done"
    /\ op' = "load_config"
    /\ UNCHANGED <<fs, env, aux>>

DeleteConfig ==
    /\ pc = "idle"
    /\ \E name \in ConfigNames :
          /\ arg' = name
          /\ resolved' = _safe_filepath(name)
          /\ result' = delete_config(name).response
          /\ fs' = delete_config(name).fs
    /\ pc' = "done"
    /\ op' = "delete_config"
    /\ UNCHANGED <<env, aux>>

NextConfig ==
    \/ SaveConfig
    \/ LoadConfig
    \/ DeleteConfig
    \/ Return

SpecConfig == InitConfig /\ [][NextConfig]_vars

\* the file a name stands for lies outside the presets directory
OutsidePresets(name) == ~IsUnder(Resolve(JoinPresets(WithJson(name))), PresetsDir)

\* the paths whose node a step created, removed or rewrote
Touched ==
    { q \in (DOMAIN fs) \cup (DOMAIN fs') :
        q \notin DOMAIN fs \/ q \notin DOMAIN fs' \/ fs[q] # fs'[q] }

\* C28: for every config name whose resolved path lies outside the presets
\* directory, save_config, load_config and delete_config answer success=False
\* with the invalid-path error and create, read or delete no file; for every
\* accepted name the file touched lies inside the presets directory.
C28_ConfigStaysInPresets ==
    [][ (pc' = "done" /\ op' \in {"save_config", "load_config", "delete_config"}) =>
          IF OutsidePresets(arg')
          THEN /\ result'.success = FALSE
               /\ result'.error = Some("Invalid config path")
               /\ result'.config = None
               /\ resolved' = None
               /\ fs' = fs
          ELSE /\ resolved' # None
               /\ IsUnder(Resolve(resolved'[1]), PresetsDir)
               /\ Touched \subseteq {Resolve(resolved'[1])}
               /\ result'.success => ~IsDir(Resolve(resolved'[1]))
      ]_vars

\* delete_config("../px") answered with the invalid-path error, "/px.json"
\* still in place
C28_Witness ==
    /\ pc = "done" /\ op = "delete_config"
    /\ arg = [abs |-> FALSE, segs |-> <<DotDot, NamePx>>]
    /\ result.success = FALSE
    /\ result.error = Some("Invalid config path")
    /\ IsFile(<<NamePxJson>>)
    /\ IsFile(<<NameP, NamePxJson>>)

(***************************************************************************)
(* The shutdown scheduler: ShutdownScheduler and _shutdown_worker          *)
(***************************************************************************)
\* how many times schedule() is called with a valid delay: one worker thread
\* is started by each
MaxSchedules == 2

\* the longest delay a caller asks for, in seconds
MaxDelay == 2

\* the longest sleep of the worker between two looks at the schedule
SLEEP_CAP == 10

\* the delays a caller asks for
Delays == 0..MaxDelay

\* the clock stops here: every deadline lies before it
Horizon == MaxDelay + 1

WorkerIds == 1..MaxSchedules

Min(a, b) == IF a <= b THEN a ELSE b
Max(a, b) == IF a >= b THEN a ELSE b

\* a cancel() that clears the thread and leaves the flag and the time set
CancelledKeepsFlag(s) == [s EXCEPT !.thread = None]

\* the module state cancel() leaves
Cancelled(s) == [s EXCEPT !.scheduled = FALSE, !.time = None, !.thread = None]

\* the module state schedule(total_seconds) leaves, the new thread included
Scheduled(s, total_seconds, thread) ==
    [s EXCEPT !.scheduled = TRUE, !.time = Some(now + total_seconds),
              !.thread = Some(thread), !.epoch = @ + 1]

\* if not _shutdown_scheduled or _shutdown_time is None: break
WorkerBreaks(s) == ~s.scheduled \/ s.time = None

\* ShutdownScheduler.schedule(total_seconds): the whole with block, entered
\* when the lock is free
Schedule ==
    /\ \E total_seconds \in Delays :
          /\ arg' = <<total_seconds>>
          /\ IF total_seconds < 1
             THEN /\ result' = Raise("ValueError")
                  /\ UNCHANGED <<sched, workers>>
             ELSE /\ lock = None
                  /\ sched.epoch < MaxSchedules
                  /\ now + total_seconds <= Horizon
                  /\ result' = [kind |-> "returned"]
                  /\ sched' = Scheduled(sched, total_seconds, sched.epoch + 1)
                  /\ workers' = workers @@
                        ((sched.epoch + 1) :> [pc |-> "enter", wake |-> 0])
    /\ op' = "schedule"
    /\ UNCHANGED <<fs, pc, env, resolved, child, calls, bufs, lock, now, fired>>

\* ShutdownScheduler.cancel()
Cancel ==
    /\ lock = None
    /\ sched' = Cancelled(sched)
    /\ op' = "cancel"
    /\ arg' = <<>>
    /\ result' = [kind |-> "returned"]
    /\ UNCHANGED <<fs, pc, env, resolved, child, calls, bufs, lock, workers, now, fired>>

\* ShutdownScheduler.status(); shutdown_time is the second strftime prints
status ==
    IF ~sched.scheduled \/ sched.time = None
    THEN [kind |-> "status", scheduled |-> FALSE, time_remaining |-> None,
          shutdown_time |-> None]
    ELSE [kind |-> "status", scheduled |-> TRUE,
          time_remaining |-> Some(Max(0, sched.time[1] - now)),
          shutdown_time |-> sched.time]

Status ==
    /\ lock = None
    /\ op' = "status"
    /\ arg' = <<>>
    /\ result' = status
    /\ UNCHANGED <<fs, pc, env, resolved, child, calls, bufs, shut>>

\* a worker enters "with _shutdown_lock" at the top of its loop
WorkerEnter(w) ==
    /\ w \in DOMAIN workers
    /\ workers[w].pc = "enter"
    /\ lock = None
    /\ lock' = Some(w)
    /\ workers' = [workers EXCEPT ![w].pc = "locked"]
    /\ UNCHANGED <<fs, single, calls, bufs, sched, now, fired>>

\* the body of the loop, the lock held: the worker breaks, runs the shutdown
\* command and breaks, or lets go of the lock and goes to sleep
WorkerCheck(w) ==
    /\ w \in DOMAIN workers
    /\ workers[w].pc = "locked"
    /\ lock = Some(w)
    /\ IF WorkerBreaks(sched)
       THEN /\ workers' = [workers EXCEPT ![w].pc = "exited"]
            /\ fired' = fired
       ELSE IF sched.time[1] - now <= 0
       THEN /\ workers' = [workers EXCEPT ![w].pc = "exited"]
            /\ fired' = Append(fired, [by |-> w, at |-> now, due |-> sched.time[1],
                                       epoch |-> sched.epoch])
       ELSE /\ workers' = [workers EXCEPT
                             ![w] = [pc |-> "sleeping",
                                     wake |-> now + Min(SLEEP_CAP, sched.time[1] - now)]]
            /\ fired' = fired
    /\ lock' = None
    /\ UNCHANGED <<fs, single, calls, bufs, sched, now>>

\* time.sleep is over and the worker has the lock again
WorkerWake(w) ==
    /\ w \in DOMAIN workers
    /\ workers[w].pc = "sleeping"
    /\ now >= workers[w].wake
    /\ lock = None
    /\ lock' = Some(w)
    /\ workers' = [workers EXCEPT ![w].pc = "relocked"]
    /\ UNCHANGED <<fs, single, calls, bufs, sched, now, fired>>

\* the end of the with block: the lock is let go and the loop starts over
WorkerLeave(w) ==
    /\ w \in DOMAIN workers
    /\ workers[w].pc = "relocked"
    /\ lock = Some(w)
    /\ lock' = None
    /\ workers' = [workers EXCEPT ![w].pc = "enter"]
    /\ UNCHANGED <<fs, single, calls, bufs, sched, now, fired>>

WorkerStep(w) == WorkerEnter(w) \/ WorkerCheck(w) \/ WorkerWake(w) \/ WorkerLeave(w)

\* a second passes
Clock ==
    /\ now < Horizon
    /\ now' = now + 1
    /\ UNCHANGED <<fs, single, calls, bufs, sched, lock, workers, fired>>

InitShutdown ==
    /\ fs = TreeOf({})
    /\ pc = "idle"
    /\ op = "none"
    /\ arg = <<>>
    /\ result = NoResult
    /\ env = NoEnv
    /\ resolved = None
    /\ child = NoChild
    /\ calls = <<>>
    /\ bufs = <<>>
    /\ ShutIdle

NextShutdown ==
    \/ Schedule
    \/ Cancel
    \/ Status
    \/ \E w \in WorkerIds : WorkerEnter(w)
    \/ \E w \in WorkerIds : WorkerCheck(w)
    \/ \E w \in WorkerIds : WorkerWake(w)
    \/ \E w \in WorkerIds : WorkerLeave(w)
    \/ Clock

\* time passes, and a thread that can take its next step takes it
SpecShutdown ==
    /\ InitShutdown
    /\ [][NextShutdown]_vars
    /\ WF_vars(Clock)
    /\ \A w \in WorkerIds : WF_vars(WorkerStep(w))

\* C29: across any interleaving of schedule(), cancel() and the worker
\* threads, at most one worker is left that will run the shutdown command:
\* the command runs at most once for a schedule() call, and not before the
\* time that call set.
C29_CommandRunsOnce ==
    /\ \A i, j \in 1..Len(fired) : i # j => fired[i].epoch # fired[j].epoch
    /\ \A i \in 1..Len(fired) : fired[i].at >= fired[i].due

AllExited == \A w \in DOMAIN workers : workers[w].pc = "exited"

\* C30: once cancel() has completed nothing is scheduled; the shutdown
\* command runs only while a shutdown is scheduled and due, so never after a
\* cancel() that no schedule() follows; a worker that looks at the schedule
\* holds the lock, and exits when it finds nothing scheduled; status()
\* reports scheduled=false exactly when nothing is scheduled; and after a
\* cancel() every worker thread has exited in the end, unless schedule() is
\* called again.
C30_CancelStopsWorkers ==
    /\ [](op = "cancel" => (~sched.scheduled /\ sched.time = None))
    /\ [](op = "status" => result.scheduled = (sched.scheduled /\ sched.time # None))
    /\ [][fired' # fired =>
            /\ sched.scheduled /\ sched.time # None
            /\ now >= sched.time[1]
            /\ lock # None /\ lock[1] \in DOMAIN workers]_vars
    /\ [][\A w \in DOMAIN workers :
            (workers[w].pc = "locked" /\ workers'[w].pc # "locked") =>
                /\ lock = Some(w)
                /\ ~sched.scheduled => (workers'[w].pc = "exited" /\ fired' = fired)]_vars
    /\ (~sched.scheduled) ~> (AllExited \/ sched.scheduled)

\* a shutdown was scheduled and cancelled before its time; the worker has
\* exited, the command never ran, and status() says nothing is scheduled
C30_Witness ==
    /\ sched.epoch = 1
    /\ ~sched.scheduled
    /\ workers[1].pc = "exited"
    /\ fired = <<>>
    /\ now = Horizon
    /\ op = "status"
    /\ result.scheduled = FALSE

====
